---- MODULE Spec2Model ----
(***************************************************************************)
(* Study library and preference store of XRayViewer                        *)
(* (services/storage/library.ts and services/storage/preferences.ts),      *)
(* modelled over IndexedDB as the code uses it: object stores keyed by     *)
(* their keyPath, requests placed on a transaction, a transaction that     *)
(* aborts when a request error is not prevented and that commits by itself *)
(* once the task that used it ends with no request pending.                *)
(*                                                                         *)
(* Descriptive fields that no operation reads (patientName, studyDate,     *)
(* studyDescription, modality, name, thumbnailDataUrl) are left out of the *)
(* rows.                                                                   *)
(***************************************************************************)
EXTENDS Integers, Sequences, FiniteSets, TLC

VARIABLES conn, studies, images, recentFiles, prefs, clock, call, last,
          thumbConn, thumbnails, viewer, idb, writers

vars == <<conn, studies, images, recentFiles, prefs, clock, call, last,
          thumbConn, thumbnails, viewer, idb, writers>>

\* The connection and the object store that services/storage/thumbnails.ts
\* works on.
thumbVars == <<thumbConn, thumbnails>>

\* The viewer store with the state of the components that read it, the
\* database with the two modules that open it, and the preference writes
\* that are in progress together.
sessionVars == <<viewer, idb, writers>>

(***************************************************************************)
(* Bounds                                                                  *)
(***************************************************************************)
NumStudies == 2        \* study instance UIDs 1..NumStudies
NumFiles == 2          \* distinct DICOM files (byte contents) 1..NumFiles
MaxFiles == 2          \* longest file list passed to one save
MaxClock == 8          \* Date.now() is not read past this value

StudyIds == 1..NumStudies
FileBytes == 1..NumFiles

(***************************************************************************)
(* Metadata of a file is a function of its bytes.  In every group of four  *)
(* files the first has a SOP instance UID and instance number 2, the       *)
(* second is a file whose metadata extraction throws (it has no SOP        *)
(* instance UID, no series UID and no instance number to read), the third  *)
(* repeats the SOP instance UID of the first with instance number 1, and   *)
(* the fourth has a SOP instance UID of its own and instance number 0.     *)
(***************************************************************************)
NoUid == 0
NoNumber == 0 - 1

Group(b) == (b - 1) \div 4
Slot(b) == (b - 1) % 4

SopOf(b) ==
  CASE Slot(b) = 0 -> 2 * Group(b) + 1
    [] Slot(b) = 1 -> NoUid
    [] Slot(b) = 2 -> 2 * Group(b) + 1
    [] OTHER -> 2 * Group(b) + 2

InstanceOf(b) ==
  CASE Slot(b) = 0 -> 2
    [] Slot(b) = 1 -> NoNumber
    [] Slot(b) = 2 -> 1
    [] OTHER -> 0

SeriesOf(b) == IF Slot(b) = 1 THEN NoUid ELSE Group(b) + 1

ByteLength(b) == b

\* metaData.get throws for this file.
ExtractionThrows(b) == Slot(b) = 1

UnknownSeries == 0

(***************************************************************************)
(* Sequences                                                               *)
(***************************************************************************)
\* The file lists passed to a save: up to MaxFiles files, each file once.
FileLists ==
  { files \in UNION {[1..n -> FileBytes] : n \in 1..MaxFiles} :
      \A i, j \in DOMAIN files : i # j => files[i] # files[j] }

RECURSIVE SumLengths(_)
SumLengths(files) ==
  IF files = <<>> THEN 0
  ELSE ByteLength(Head(files)) + SumLengths(Tail(files))

\* Array.prototype.sort with comparator a.instanceNumber - b.instanceNumber:
\* a stable sort, equal keys keep their order.
RECURSIVE InsertByInstance(_, _)
InsertByInstance(row, sorted) ==
  IF sorted = <<>> THEN <<row>>
  ELSE IF Head(sorted).instanceNumber <= row.instanceNumber
       THEN <<Head(sorted)>> \o InsertByInstance(row, Tail(sorted))
       ELSE <<row>> \o sorted

RECURSIVE SortByInstance(_)
SortByInstance(rows) ==
  IF rows = <<>> THEN <<>>
  ELSE InsertByInstance(rows[Len(rows)], SortByInstance(SubSeq(rows, 1, Len(rows) - 1)))

(***************************************************************************)
(* Keys of the images store                                                *)
(***************************************************************************)
SopImageId(sop) == [kind |-> "sop", uid |-> sop, idx |-> 0]

PositionalImageId(studyId, i) == [kind |-> "pos", uid |-> studyId, idx |-> i]

\* Position of a key in the key order of the store.
KeyRank(k) == IF k.kind = "sop" THEN k.uid ELSE 1000 + 100 * k.uid + k.idx

(***************************************************************************)
(* Object stores: a set of rows with at most one row per key; put replaces *)
(* the row that has the same key.                                          *)
(***************************************************************************)
PutStudyRow(store, row) == {r \in store : r.id # row.id} \cup {row}

PutImageRow(store, row) == {r \in store : r.imageId # row.imageId} \cup {row}

\* A put into a store without a key path: the row is added beside the others.
AddRecentRow(store, row) == store \cup {row}

PutRecentRow(store, row) == {r \in store : r.id # row.id} \cup {row}

DeleteStudyRow(store, id) == {r \in store : r.id # id}

\* A delete request that removes nothing.
KeepImageRow(store, key) == store

DeleteImageRow(store, key) == {r \in store : r.imageId # key}

HasStudy(store, id) == \E r \in store : r.id = id

GetStudy(store, id) == CHOOSE r \in store : r.id = id

ImagesOfStudy(store, id) == {r \in store : r.studyId = id}

\* Rows of a set in key order, as an index scan over equal index keys
\* yields them.
RECURSIVE InKeyOrder(_)
InKeyOrder(rows) ==
  IF rows = {} THEN <<>>
  ELSE LET first == CHOOSE r \in rows :
                      \A q \in rows : KeyRank(r.imageId) <= KeyRank(q.imageId)
       IN <<first>> \o InKeyOrder(rows \ {first})

(***************************************************************************)
(* Transactions.  A request error whose event is not prevented aborts the  *)
(* transaction, and an aborted transaction leaves the stores as they were  *)
(* when it began.  A transaction with no pending request commits when the  *)
(* task that used it ends; the commit itself can fail, which aborts it.    *)
(***************************************************************************)
CommitOutcomes == {"committed", "aborted"}

\* As TxAbort, had the error event been prevented: what was written stays.
TxAbortKeepsWrites(before, written) == written

TxAbort(before, written) == before

TxCommit(before, written, outcome) ==
  IF outcome = "committed" THEN written ELSE TxAbort(before, written)

\* State of a transaction when the task that last used it has ended.
TxAtTaskEnd(tx) ==
  IF tx.pending = 0 /\ tx.state = "active" THEN [tx EXCEPT !.state = "finished"]
  ELSE tx

(***************************************************************************)
(* getDB: the open request is issued once and its promise is cached,       *)
(* whether it resolved or rejected.                                        *)
(***************************************************************************)
OpenOutcomes(c) == IF c = "unopened" THEN {"open", "failed"} ELSE {c}

NoCall == [op |-> "none"]

\* The state of the viewer store after creation; currentMetadata is null.
\* producedFrom lists the File objects whose registration gave
\* currentImageIds.
NoMetadata == [present |-> FALSE]

initialState ==
  [ studies |-> <<>>, seriesRanges |-> <<>>,
    currentImageIds |-> <<>>, currentImageIndex |-> 0,
    currentSeriesIndex |-> 0, currentMetadata |-> NoMetadata,
    currentStudyId |-> "", loadedFiles |-> <<>>,
    isInLibrary |-> FALSE, producedFrom |-> <<>> ]

\* No page has opened the database yet.
NotStarted == [started |-> FALSE]

\* No write of the preferences is in progress.
NoWriters == <<>>
NoLast == [op |-> "none"]

NoPrefs == [present |-> FALSE]

\* Every call is awaited: a call begins when no call is in progress and the
\* caller has taken the result of the one before.
Idle == call = NoCall /\ last = NoLast

Init ==
  /\ conn = "unopened"
  /\ studies = {}
  /\ images = {}
  /\ recentFiles = {}
  /\ prefs = NoPrefs
  /\ clock = 1
  /\ call = NoCall
  /\ last = NoLast
  /\ thumbConn = "unopened"
  /\ thumbnails = {}
  /\ viewer = initialState
  /\ idb = NotStarted
  /\ writers = NoWriters

(***************************************************************************)
(* saveStudyToLibrary                                                      *)
(***************************************************************************)
Truthy(n) == n # NoNumber /\ n # 0

\* The StoredImage built for files[i + 1], i counted from 0.  The three
\* metaData.get calls come before the assignments, so a throw leaves the
\* positional defaults in place.
BuildImage(id, files, i) ==
  LET b == files[i + 1] IN
  [ imageId |-> IF ~ExtractionThrows(b) /\ SopOf(b) # NoUid
                THEN SopImageId(SopOf(b))
                ELSE PositionalImageId(id, i),
    studyId |-> id,
    seriesId |-> IF ~ExtractionThrows(b) /\ SeriesOf(b) # NoUid
                 THEN SeriesOf(b) ELSE UnknownSeries,
    instanceNumber |-> IF ~ExtractionThrows(b) /\ Truthy(InstanceOf(b))
                       THEN InstanceOf(b) ELSE i,
    dicomBytes |-> b,
    size |-> ByteLength(b) ]

StoredImagesOf(id, files) ==
  SortByInstance([i \in 1..Len(files) |-> BuildImage(id, files, i - 1)])

StudyRecord(id, files, now) ==
  [ id |-> id,
    imageCount |-> Len(files),
    totalSize |-> SumLengths(files),
    importedAt |-> now,
    lastViewedAt |-> now + 1 ]

\* The name of request.error when a put reports an error.
RequestErrors == {"QuotaExceededError", "UnknownError"}

\* The message of the Error that saveStudyToLibrary rejects with when the
\* step `at` failed and the request error was `cause`.
SaveError(at, cause) ==
  CASE at = "open" -> "Failed to open database"
    [] at = "studyPut" -> "Failed to save study"
    [] at = "imagePut" -> "Failed to save image"
    [] OTHER -> "Failed to add recent file"

SaveRejected(id, files, study, at, written, cause) ==
  [ op |-> "save", id |-> id, files |-> files, result |-> "rejected",
    failedAt |-> at, study |-> study, written |-> written, fault |-> TRUE,
    cause |-> cause, error |-> SaveError(at, cause) ]

\* await getDB(); build the rows; open the transaction; place the study put.
SaveBegin(id, files) ==
  /\ Idle
  /\ clock + 3 <= MaxClock
  /\ \E c \in OpenOutcomes(conn) :
       /\ conn' = c
       /\ IF c = "failed"
          THEN /\ call' = NoCall
               /\ last' = SaveRejected(id, files, StudyRecord(id, files, clock), "open", 0,
                                            "none")
               /\ clock' = clock
          ELSE /\ call' = [ op |-> "save", pc |-> "putStudy", id |-> id,
                            files |-> files,
                            study |-> StudyRecord(id, files, clock),
                            storedImages |-> StoredImagesOf(id, files),
                            next |-> 1,
                            tx |-> [studies |-> studies, images |-> images] ]
               /\ last' = NoLast
               /\ clock' = clock + 2
  /\ UNCHANGED <<studies, images, recentFiles, prefs>>
  /\ UNCHANGED thumbVars
  /\ UNCHANGED sessionVars

\* The study put completes: onsuccess resolves, onerror rejects and the
\* transaction aborts.
SavePutStudy(ok) ==
  /\ call.op = "save" /\ call.pc = "putStudy"
  /\ IF ok
     THEN /\ call' = [call EXCEPT !.pc = "putImage",
                                  !.tx.studies = PutStudyRow(@, call.study)]
          /\ last' = last
          /\ UNCHANGED <<studies, images>>
     ELSE /\ call' = NoCall
          /\ \E cause \in RequestErrors :
               last' = SaveRejected(call.id, call.files, call.study, "studyPut", 0,
                                    cause)
          /\ studies' = TxAbort(studies, call.tx.studies)
          /\ images' = TxAbort(images, call.tx.images)
  /\ UNCHANGED <<conn, recentFiles, prefs, clock>>
  /\ UNCHANGED thumbVars
  /\ UNCHANGED sessionVars

\* One image put completes.
SavePutImage(ok) ==
  /\ call.op = "save" /\ call.pc = "putImage"
  /\ call.next <= Len(call.storedImages)
  /\ IF ok
     THEN /\ call' = [call EXCEPT !.next = @ + 1,
                                  !.tx.images = PutImageRow(@, call.storedImages[call.next])]
          /\ last' = last
          /\ UNCHANGED <<studies, images>>
     ELSE /\ call' = NoCall
          /\ \E cause \in RequestErrors :
               last' = SaveRejected(call.id, call.files, call.study, "imagePut",
                                    call.next - 1, cause)
          /\ studies' = TxAbort(studies, call.tx.studies)
          /\ images' = TxAbort(images, call.tx.images)
  /\ UNCHANGED <<conn, recentFiles, prefs, clock>>
  /\ UNCHANGED thumbVars
  /\ UNCHANGED sessionVars

RecentOutcomes == {"ok", "error", "aborted"}

RecentFileRow(studyId, count, now) ==
  [ id |-> studyId, studyId |-> studyId, imageCount |-> count, timestamp |-> now ]

\* await addRecentFile(...): the save transaction has no request pending
\* and commits; addRecentFile puts its row in a transaction of its own and
\* rejects when that put reports an error; then the study is returned.
SaveAddRecent(commit, recent) ==
  /\ call.op = "save" /\ call.pc = "putImage"
  /\ call.next > Len(call.storedImages)
  /\ studies' = TxCommit(studies, call.tx.studies, commit)
  /\ images' = TxCommit(images, call.tx.images, commit)
  /\ recentFiles' = TxCommit(recentFiles,
                             PutRecentRow(recentFiles,
                                          RecentFileRow(call.id, Len(call.files), clock)),
                             IF recent = "ok" THEN "committed" ELSE "aborted")
  /\ clock' = clock + 1
  /\ call' = NoCall
  /\ last' = [ op |-> "save", id |-> call.id, files |-> call.files,
               result |-> IF recent = "error" THEN "rejected" ELSE "ok",
               failedAt |-> IF recent = "error" THEN "recentPut" ELSE "none",
               study |-> call.study,
               written |-> Len(call.storedImages),
               fault |-> (commit # "committed" \/ recent # "ok"),
               cause |-> "none",
               error |-> IF recent = "error" THEN SaveError("recentPut", "none")
                         ELSE "none" ]
  /\ UNCHANGED <<conn, prefs>>
  /\ UNCHANGED thumbVars
  /\ UNCHANGED sessionVars

(***************************************************************************)
(* deleteStudyFromLibrary                                                  *)
(***************************************************************************)
Stores == <<studies, images, recentFiles, prefs>>

\* Primary keys of the images of a study, as the key cursor over
\* index('studyId') with IDBKeyRange.only(studyId) yields them.
\* As KeysForStudy, with a cursor opened without the key range.
KeysOfAllStudies(store, id) ==
  LET rows == InKeyOrder(store)
  IN [i \in 1..Len(rows) |-> rows[i].imageId]

KeysForStudy(store, id) ==
  LET rows == InKeyOrder(ImagesOfStudy(store, id))
  IN [i \in 1..Len(rows) |-> rows[i].imageId]

DeleteDone(c, result, fault) ==
  [ op |-> "delete", id |-> c.id, result |-> result, fault |-> fault,
    noRow |-> c.noRow ]

\* await getDB(); open the transaction; place the delete of the study row.
DeleteBegin(id) ==
  /\ Idle
  /\ \E c \in OpenOutcomes(conn) :
       /\ conn' = c
       /\ IF c = "failed"
          THEN /\ call' = NoCall
               /\ last' = [ op |-> "delete", id |-> id, result |-> "rejected",
                            fault |-> TRUE, noRow |-> ~HasStudy(studies, id) ]
          ELSE /\ call' = [ op |-> "delete", pc |-> "deleteStudy", id |-> id,
                            noRow |-> ~HasStudy(studies, id),
                            keys |-> <<>>, next |-> 1,
                            tx |-> [studies |-> studies, images |-> images] ]
               /\ last' = NoLast
  /\ UNCHANGED <<studies, images, recentFiles, prefs, clock>>
  /\ UNCHANGED thumbVars
  /\ UNCHANGED sessionVars

\* The delete of the study row completes: onerror rejects.
DeleteStudyRequest(ok) ==
  /\ call.op = "delete" /\ call.pc = "deleteStudy"
  /\ IF ok
     THEN /\ call' = [call EXCEPT !.pc = "enumerate",
                                  !.tx.studies = DeleteStudyRow(@, call.id)]
          /\ last' = last
          /\ UNCHANGED <<studies, images>>
     ELSE /\ call' = NoCall
          /\ last' = DeleteDone(call, "rejected", TRUE)
          /\ studies' = TxAbort(studies, call.tx.studies)
          /\ images' = TxAbort(images, call.tx.images)
  /\ UNCHANGED <<conn, recentFiles, prefs, clock>>
  /\ UNCHANGED thumbVars
  /\ UNCHANGED sessionVars

\* The key cursor runs to its end, or reports an error: onerror resolves
\* with no keys, the loop runs zero times and the function returns, while
\* the transaction aborts on the unprevented error.
DeleteEnumerate(ok) ==
  /\ call.op = "delete" /\ call.pc = "enumerate"
  /\ IF ok
     THEN /\ call' = [call EXCEPT !.pc = "deleteImage",
                                  !.keys = KeysForStudy(call.tx.images, call.id)]
          /\ last' = last
          /\ UNCHANGED <<studies, images>>
     ELSE /\ call' = NoCall
          /\ last' = DeleteDone(call, "ok", TRUE)
          /\ studies' = TxAbort(studies, call.tx.studies)
          /\ images' = TxAbort(images, call.tx.images)
  /\ UNCHANGED <<conn, recentFiles, prefs, clock>>
  /\ UNCHANGED thumbVars
  /\ UNCHANGED sessionVars

\* Result of the call when the delete of keys[next] reports an error.
\* onerror resolves, so the loop places the next delete while the error
\* event is still being dispatched; then the transaction aborts, that
\* request fails too and resolves, and a further delete is placed on the
\* finished transaction, which throws.
ResultAfterDeleteError(remaining) ==
  IF remaining >= 2 THEN "rejected" ELSE "ok"

\* One image delete completes.
DeleteImage(ok) ==
  /\ call.op = "delete" /\ call.pc = "deleteImage"
  /\ call.next <= Len(call.keys)
  /\ IF ok
     THEN /\ call' = [call EXCEPT !.next = @ + 1,
                                  !.tx.images = DeleteImageRow(@, call.keys[call.next])]
          /\ last' = last
          /\ UNCHANGED <<studies, images>>
     ELSE /\ call' = NoCall
          /\ last' = DeleteDone(call,
                                ResultAfterDeleteError(Len(call.keys) - call.next),
                                TRUE)
          /\ studies' = TxAbort(studies, call.tx.studies)
          /\ images' = TxAbort(images, call.tx.images)
  /\ UNCHANGED <<conn, recentFiles, prefs, clock>>
  /\ UNCHANGED thumbVars
  /\ UNCHANGED sessionVars

\* The loop is over and the function returns; the transaction commits.
DeleteReturn(commit) ==
  /\ call.op = "delete" /\ call.pc = "deleteImage"
  /\ call.next > Len(call.keys)
  /\ studies' = TxCommit(studies, call.tx.studies, commit)
  /\ images' = TxCommit(images, call.tx.images, commit)
  /\ call' = NoCall
  /\ last' = DeleteDone(call, "ok", commit # "committed")
  /\ UNCHANGED <<conn, recentFiles, prefs, clock>>
  /\ UNCHANGED thumbVars
  /\ UNCHANGED sessionVars

(***************************************************************************)
(* loadStudyFromLibrary and updateStudyLastViewed                          *)
(***************************************************************************)
LoadFaults == {"none", "getStudy", "getAll", "updateGet", "updatePut", "updateCommit"}

\* As LoadFound, without the check of the row that was read.
LoadFoundUnchecked(store, id, fault) == TRUE

\* request.result || null of store.get(studyId); onerror resolves null.
LoadFound(store, id, fault) == fault # "getStudy" /\ HasStudy(store, id)

\* index('studyId').getAll(studyId), then the sort by instance number;
\* onerror resolves the empty array.
LoadImages(store, id, fault) ==
  IF fault = "getAll" THEN <<>>
  ELSE SortByInstance(InKeyOrder(ImagesOfStudy(store, id)))

\* updateStudyLastViewed: get the row, set lastViewedAt, put it back; every
\* error is swallowed.
UpdateLastViewed(store, id, now, fault) ==
  IF fault = "updateGet" \/ ~HasStudy(store, id) THEN store
  ELSE TxCommit(store,
                PutStudyRow(store, [GetStudy(store, id) EXCEPT !.lastViewedAt = now]),
                IF fault \in {"updatePut", "updateCommit"} THEN "aborted"
                ELSE "committed")

\* As LoadHandles, with no handle returned when any request of the load
\* failed.
LoadHandlesUnlessFault(store, id, fault) ==
  IF fault # "none" THEN <<>>
  ELSE LET rows == LoadImages(store, id, fault)
       IN [i \in 1..Len(rows) |-> rows[i].dicomBytes]

\* The file handles registered with the image loader, one per row read.
LoadHandles(store, id, fault) ==
  LET rows == LoadImages(store, id, fault)
  IN [i \in 1..Len(rows) |-> rows[i].dicomBytes]

LoadStudy(id, fault) ==
  /\ Idle
  /\ clock + 1 <= MaxClock
  /\ \E c \in OpenOutcomes(conn) :
       /\ conn' = c
       /\ IF c = "failed"
          THEN /\ last' = [ op |-> "load", id |-> id, result |-> "rejected",
                            handles |-> <<>>, fault |-> TRUE,
                            failedAt |-> "open" ]
               /\ UNCHANGED <<studies, clock>>
          ELSE IF ~LoadFound(studies, id, fault)
          THEN /\ last' = [ op |-> "load", id |-> id, result |-> "null",
                            handles |-> <<>>, fault |-> fault # "none",
                            failedAt |-> fault ]
               /\ UNCHANGED <<studies, clock>>
          ELSE /\ last' = [ op |-> "load", id |-> id, result |-> "ok",
                            handles |-> LoadHandles(images, id, fault),
                            fault |-> fault # "none", failedAt |-> fault ]
               /\ studies' = UpdateLastViewed(studies, id, clock, fault)
               /\ clock' = IF fault = "updateGet" \/ ~HasStudy(studies, id)
                           THEN clock ELSE clock + 1
  /\ UNCHANGED <<images, recentFiles, prefs, call>>
  /\ UNCHANGED thumbVars
  /\ UNCHANGED sessionVars

(***************************************************************************)
(* getLibraryStudies, isStudyInLibrary, clearLibrary                       *)
(***************************************************************************)
\* index('lastViewedAt').openCursor(null, 'prev'): index key descending,
\* and primary key descending among equal index keys.
\* As LibraryCursor, with the cursor direction 'next'.
RECURSIVE LibraryCursorAscending(_)
LibraryCursorAscending(store) ==
  IF store = {} THEN <<>>
  ELSE LET first == CHOOSE r \in store :
                      \A q \in store :
                        \/ q.lastViewedAt > r.lastViewedAt
                        \/ (q.lastViewedAt = r.lastViewedAt /\ q.id >= r.id)
       IN <<first>> \o LibraryCursorAscending(store \ {first})

RECURSIVE LibraryCursor(_)
LibraryCursor(store) ==
  IF store = {} THEN <<>>
  ELSE LET first == CHOOSE r \in store :
                      \A q \in store :
                        \/ q.lastViewedAt < r.lastViewedAt
                        \/ (q.lastViewedAt = r.lastViewedAt /\ q.id <= r.id)
       IN <<first>> \o LibraryCursor(store \ {first})

GetLibraryStudies(fault) ==
  /\ Idle
  /\ \E c \in OpenOutcomes(conn) :
       /\ conn' = c
       /\ last' = [ op |-> "list",
                    result |-> IF c = "failed" \/ fault THEN <<>>
                               ELSE LibraryCursor(studies),
                    rejected |-> FALSE,
                    fault |-> (c = "failed" \/ fault) ]
  /\ UNCHANGED <<studies, images, recentFiles, prefs, clock, call>>
  /\ UNCHANGED thumbVars
  /\ UNCHANGED sessionVars

\* store.count(studyId) > 0
CountStudy(store, id) == Cardinality({r \in store : r.id = id})

IsStudyInLibrary(id, fault) ==
  /\ Idle
  /\ \E c \in OpenOutcomes(conn) :
       /\ conn' = c
       /\ last' = [ op |-> "isInLibrary", id |-> id,
                    result |-> IF c = "failed" \/ fault THEN FALSE
                               ELSE CountStudy(studies, id) > 0,
                    rejected |-> FALSE,
                    fault |-> (c = "failed" \/ fault) ]
  /\ UNCHANGED <<studies, images, recentFiles, prefs, clock, call>>
  /\ UNCHANGED thumbVars
  /\ UNCHANGED sessionVars

ClearOutcomes == {"ok", "error", "aborted"}

ClearLibrary(outcome) ==
  /\ Idle
  /\ \E c \in OpenOutcomes(conn) :
       /\ conn' = c
       /\ IF c = "failed"
          THEN /\ last' = [ op |-> "clearLibrary", rejected |-> TRUE, fault |-> TRUE ]
               /\ UNCHANGED <<studies, images>>
          ELSE /\ last' = [ op |-> "clearLibrary", rejected |-> outcome = "error",
                            fault |-> outcome # "ok" ]
               /\ studies' = TxCommit(studies, {},
                                      IF outcome = "ok" THEN "committed" ELSE "aborted")
               /\ images' = TxCommit(images, {},
                                     IF outcome = "ok" THEN "committed" ELSE "aborted")
  /\ UNCHANGED <<recentFiles, prefs, clock, call>>
  /\ UNCHANGED thumbVars
  /\ UNCHANGED sessionVars

(***************************************************************************)
(* getPreferences, savePreferences, setPreference                          *)
(***************************************************************************)
DEFAULT_PREFERENCES ==
  [ showPhiData |-> FALSE,
    showMetadataSidebar |-> TRUE,
    showThumbnailStrip |-> TRUE,
    showLibraryPanel |-> FALSE,
    defaultTool |-> "WindowLevel",
    invertColors |-> FALSE ]

\* { ...base, ...over }
Spread(base, over) ==
  [k \in DOMAIN base \cup DOMAIN over |->
     IF k \in DOMAIN over THEN over[k] ELSE base[k]]

\* What getPreferences resolves with for the stored row.
PreferencesOf(row) ==
  IF row.present THEN Spread(DEFAULT_PREFERENCES, row.value)
  ELSE DEFAULT_PREFERENCES

GetPreferences(fault) ==
  /\ Idle
  /\ \E c \in OpenOutcomes(conn) :
       /\ conn' = c
       /\ last' = [ op |-> "getPreferences",
                    result |-> IF c = "failed" \/ fault THEN DEFAULT_PREFERENCES
                               ELSE PreferencesOf(prefs),
                    rejected |-> FALSE,
                    fault |-> (c = "failed" \/ fault) ]
  /\ UNCHANGED <<studies, images, recentFiles, prefs, clock, call>>
  /\ UNCHANGED thumbVars
  /\ UNCHANGED sessionVars

\* The partial preference objects passed to savePreferences; a single key
\* is what setPreference passes.
PartialPreferences ==
  { [showPhiData |-> TRUE], [defaultTool |-> "Pan"] }

\* await getDB(); db.transaction(PREFS_STORE, 'readwrite'); then
\* await getPreferences(): the task ends with no request placed on the
\* readwrite transaction.
SavePreferencesBegin(partial) ==
  /\ Idle
  /\ \E c \in OpenOutcomes(conn) :
       /\ conn' = c
       /\ IF c = "failed"
          THEN /\ call' = NoCall
               /\ last' = [ op |-> "savePreferences", partial |-> partial,
                            rejected |-> FALSE, fault |-> TRUE ]
          ELSE /\ call' = [ op |-> "savePreferences", partial |-> partial,
                            tx |-> TxAtTaskEnd([state |-> "active", pending |-> 0]) ]
               /\ last' = NoLast
  /\ UNCHANGED <<studies, images, recentFiles, prefs, clock>>
  /\ UNCHANGED thumbVars
  /\ UNCHANGED sessionVars

\* getPreferences has resolved; store.put is called on the readwrite
\* transaction, which throws when that transaction has finished, and the
\* promise returned from inside the try block then rejects.
SavePreferencesPut(putOk) ==
  /\ call.op = "savePreferences"
  /\ IF call.tx.state # "active"
     THEN /\ prefs' = prefs
          /\ last' = [ op |-> "savePreferences", partial |-> call.partial,
                       rejected |-> TRUE, fault |-> FALSE ]
     ELSE /\ prefs' = TxCommit(prefs,
                               [ present |-> TRUE,
                                 value |-> Spread(PreferencesOf(prefs), call.partial) ],
                               IF putOk THEN "committed" ELSE "aborted")
          /\ last' = [ op |-> "savePreferences", partial |-> call.partial,
                       rejected |-> ~putOk, fault |-> ~putOk ]
  /\ call' = NoCall
  /\ UNCHANGED <<conn, studies, images, recentFiles, clock>>
  /\ UNCHANGED thumbVars
  /\ UNCHANGED sessionVars

\* The caller takes the result of the call that completed.
CallerResumes ==
  /\ call = NoCall
  /\ last # NoLast
  /\ last' = NoLast
  /\ UNCHANGED <<conn, studies, images, recentFiles, prefs, clock, call>>
  /\ UNCHANGED thumbVars
  /\ UNCHANGED sessionVars

Next ==
  \/ \E id \in StudyIds, files \in FileLists : SaveBegin(id, files)
  \/ \E ok \in BOOLEAN : SavePutStudy(ok)
  \/ \E ok \in BOOLEAN : SavePutImage(ok)
  \/ \E commit \in CommitOutcomes, recent \in RecentOutcomes : SaveAddRecent(commit, recent)
  \/ \E id \in StudyIds : DeleteBegin(id)
  \/ \E ok \in BOOLEAN : DeleteStudyRequest(ok)
  \/ \E ok \in BOOLEAN : DeleteEnumerate(ok)
  \/ \E ok \in BOOLEAN : DeleteImage(ok)
  \/ \E commit \in CommitOutcomes : DeleteReturn(commit)
  \/ \E id \in StudyIds, fault \in LoadFaults : LoadStudy(id, fault)
  \/ \E fault \in BOOLEAN : GetLibraryStudies(fault)
  \/ \E id \in StudyIds, fault \in BOOLEAN : IsStudyInLibrary(id, fault)
  \/ \E outcome \in ClearOutcomes : ClearLibrary(outcome)
  \/ \E fault \in BOOLEAN : GetPreferences(fault)
  \/ \E partial \in PartialPreferences : SavePreferencesBegin(partial)
  \/ \E putOk \in BOOLEAN : SavePreferencesPut(putOk)
  \/ CallerResumes

Spec == Init /\ [][Next]_vars

(***************************************************************************)
(* Recent files: addRecentFile, getRecentFiles, clearRecentFiles           *)
(***************************************************************************)
MaxLimit == 2          \* largest limit passed to getRecentFiles

NoStudyId == 0

\* `${file.name}-${Date.now()}`, for the one name that is modelled; it is
\* equal to no study id.
NameTimeId(now) == 0 - now

\* The RecentFile that addRecentFile builds: Date.now() is read for the id
\* only when there is no studyId, and then once more for the timestamp.
RecentFile(studyId, count, now) ==
  IF studyId # NoStudyId THEN RecentFileRow(studyId, count, now)
  ELSE [ id |-> NameTimeId(now), studyId |-> NoStudyId, imageCount |-> count,
         timestamp |-> now + 1 ]

ClockReads(studyId) == IF studyId # NoStudyId THEN 1 ELSE 2

\* getDB is awaited inside the try block; the promise of the put is
\* returned from inside it without await, so its rejection is not caught.
AddRecentFile(studyId, count, outcome) ==
  /\ Idle
  /\ clock + ClockReads(studyId) <= MaxClock
  /\ \E c \in OpenOutcomes(conn) :
       /\ conn' = c
       /\ IF c = "failed"
          THEN /\ last' = [ op |-> "addRecentFile", studyId |-> studyId,
                            row |-> RecentFile(studyId, count, clock),
                            replaced |-> FALSE,
                            rejected |-> FALSE, fault |-> TRUE ]
               /\ UNCHANGED <<recentFiles, clock>>
          ELSE /\ last' = [ op |-> "addRecentFile", studyId |-> studyId,
                            row |-> RecentFile(studyId, count, clock),
                            replaced |-> (\E r \in recentFiles : r.studyId = studyId),
                            rejected |-> outcome = "error",
                            fault |-> outcome # "ok" ]
               /\ recentFiles' =
                    TxCommit(recentFiles,
                             PutRecentRow(recentFiles, RecentFile(studyId, count, clock)),
                             IF outcome = "ok" THEN "committed" ELSE "aborted")
               /\ clock' = clock + ClockReads(studyId)
  /\ UNCHANGED <<studies, images, prefs, call>>
  /\ UNCHANGED thumbVars
  /\ UNCHANGED sessionVars

\* index('timestamp').openCursor(null, 'prev'): timestamp descending, and
\* primary key descending among equal timestamps.
RECURSIVE RecentCursor(_)
RecentCursor(store) ==
  IF store = {} THEN <<>>
  ELSE LET first == CHOOSE r \in store :
                      \A q \in store :
                        \/ q.timestamp < r.timestamp
                        \/ (q.timestamp = r.timestamp /\ q.id <= r.id)
       IN <<first>> \o RecentCursor(store \ {first})

\* The cursor loop, had it tested files.length <= limit.
RECURSIVE TakeWhileAtMost(_, _, _)
TakeWhileAtMost(rows, files, limit) ==
  IF rows # <<>> /\ Len(files) <= limit
  THEN TakeWhileAtMost(Tail(rows), Append(files, Head(rows)), limit)
  ELSE files

\* The cursor loop: rows are pushed while files.length < limit.
RECURSIVE TakeWhileBelow(_, _, _)
TakeWhileBelow(rows, files, limit) ==
  IF rows # <<>> /\ Len(files) < limit
  THEN TakeWhileBelow(Tail(rows), Append(files, Head(rows)), limit)
  ELSE files

GetRecentFiles(limit, fault) ==
  /\ Idle
  /\ \E c \in OpenOutcomes(conn) :
       /\ conn' = c
       /\ last' = [ op |-> "getRecentFiles", limit |-> limit,
                    result |-> IF c = "failed" \/ fault THEN <<>>
                               ELSE TakeWhileBelow(RecentCursor(recentFiles), <<>>, limit),
                    rejected |-> FALSE,
                    fault |-> (c = "failed" \/ fault) ]
  /\ UNCHANGED <<studies, images, recentFiles, prefs, clock, call>>
  /\ UNCHANGED thumbVars
  /\ UNCHANGED sessionVars

ClearRecentFiles(outcome) ==
  /\ Idle
  /\ \E c \in OpenOutcomes(conn) :
       /\ conn' = c
       /\ IF c = "failed"
          THEN /\ last' = [ op |-> "clearRecentFiles", rejected |-> FALSE,
                            fault |-> TRUE ]
               /\ UNCHANGED recentFiles
          ELSE /\ last' = [ op |-> "clearRecentFiles", rejected |-> outcome = "error",
                            fault |-> outcome # "ok" ]
               /\ recentFiles' = TxCommit(recentFiles, {},
                                          IF outcome = "ok" THEN "committed"
                                          ELSE "aborted")
  /\ UNCHANGED <<studies, images, prefs, clock, call>>
  /\ UNCHANGED thumbVars
  /\ UNCHANGED sessionVars

(***************************************************************************)
(* clearAllStorage: one readwrite transaction over the listed stores.  The *)
(* clear requests are awaited inside the try block, so a failed request is *)
(* caught and the call resolves.                                           *)
(***************************************************************************)
\* The store list before the thumbnails store was added to it.
StoreNamesOfLibraryAndCache == {"preferences", "recentFiles", "studies", "images"}

storeNames == {"preferences", "recentFiles", "studies", "images", "thumbnails"}

\* transaction.objectStore(storeName).clear() for the stores that are listed.
ClearedStore(name, store, empty) == IF name \in storeNames THEN empty ELSE store

ClearAllStorage(outcome) ==
  /\ Idle
  /\ \E c \in OpenOutcomes(conn) :
       /\ conn' = c
       /\ LET commit == IF c = "open" /\ outcome = "ok" THEN "committed"
                        ELSE "aborted"
          IN /\ prefs' = TxCommit(prefs, ClearedStore("preferences", prefs, NoPrefs), commit)
             /\ recentFiles' = TxCommit(recentFiles,
                                        ClearedStore("recentFiles", recentFiles, {}), commit)
             /\ studies' = TxCommit(studies, ClearedStore("studies", studies, {}), commit)
             /\ images' = TxCommit(images, ClearedStore("images", images, {}), commit)
             /\ thumbnails' = TxCommit(thumbnails,
                                       ClearedStore("thumbnails", thumbnails, {}), commit)
             /\ last' = [ op |-> "clearAllStorage", rejected |-> FALSE,
                          fault |-> commit # "committed",
                          held |-> {n \in storeNames :
                                      \/ (n = "preferences" /\ prefs.present)
                                      \/ (n = "recentFiles" /\ recentFiles # {})
                                      \/ (n = "studies" /\ studies # {})
                                      \/ (n = "images" /\ images # {})
                                      \/ (n = "thumbnails" /\ thumbnails # {})} ]
  /\ UNCHANGED <<clock, call, thumbConn>>
  /\ UNCHANGED sessionVars

(***************************************************************************)
(* Thumbnail cache (thumbnails.ts): its own cached connection to the same  *)
(* database, and the thumbnails store.                                     *)
(***************************************************************************)
\* The imageId of the displayed image: one per file.
ThumbnailIds == FileBytes

MaxAge == 2            \* largest age passed to clearOldThumbnails, in clock ticks

ThumbnailEntry(imageId, now) == [ imageId |-> imageId, timestamp |-> now ]

PutThumbnail(store, entry) ==
  {t \in store : t.imageId # entry.imageId} \cup {entry}

ThumbDone(op, imageId, rejected, fault) ==
  [ op |-> op, imageId |-> imageId, rejected |-> rejected, fault |-> fault ]

\* Shared shape of saveThumbnail, deleteThumbnail and clearAllThumbnails:
\* getDB is awaited inside the try block, the promise of the request is
\* returned from it without await.
ThumbWrite(op, imageId, written, outcome, reads) ==
  /\ Idle
  /\ clock + reads <= MaxClock
  /\ \E c \in OpenOutcomes(thumbConn) :
       /\ thumbConn' = c
       /\ IF c = "failed"
          THEN /\ last' = ThumbDone(op, imageId, FALSE, TRUE)
               /\ UNCHANGED <<thumbnails, clock>>
          ELSE /\ last' = ThumbDone(op, imageId, outcome = "error", outcome # "ok")
               /\ thumbnails' = TxCommit(thumbnails, written,
                                         IF outcome = "ok" THEN "committed"
                                         ELSE "aborted")
               /\ clock' = clock + reads
  /\ UNCHANGED <<conn, studies, images, recentFiles, prefs, call>>
  /\ UNCHANGED sessionVars

saveThumbnail(imageId, outcome) ==
  ThumbWrite("saveThumbnail", imageId,
             PutThumbnail(thumbnails, ThumbnailEntry(imageId, clock)), outcome, 1)

deleteThumbnail(imageId, outcome) ==
  ThumbWrite("deleteThumbnail", imageId,
             {t \in thumbnails : t.imageId # imageId}, outcome, 0)

clearAllThumbnails(outcome) ==
  ThumbWrite("clearAllThumbnails", 0, {}, outcome, 0)

\* store.get(imageId): request.result || null; an error resolves null.
getThumbnail(imageId, fault) ==
  /\ Idle
  /\ \E c \in OpenOutcomes(thumbConn) :
       /\ thumbConn' = c
       /\ last' = [ op |-> "getThumbnail", imageId |-> imageId,
                    result |-> IF c = "failed" \/ fault THEN {}
                               ELSE {t \in thumbnails : t.imageId = imageId},
                    rejected |-> FALSE, fault |-> (c = "failed" \/ fault) ]
  /\ UNCHANGED <<conn, studies, images, recentFiles, prefs, clock, call, thumbnails>>
  /\ UNCHANGED sessionVars

\* index('timestamp').openCursor(IDBKeyRange.upperBound(cutoff)) with
\* cursor.delete() on every row; cutoff = Date.now() - age.  An error of
\* the cursor request resolves and aborts the transaction.
clearOldThumbnails(age, outcome) ==
  /\ Idle
  /\ \E c \in OpenOutcomes(thumbConn) :
       /\ thumbConn' = c
       /\ IF c = "failed"
          THEN /\ last' = ThumbDone("clearOldThumbnails", 0, FALSE, TRUE)
               /\ UNCHANGED thumbnails
          ELSE /\ last' = ThumbDone("clearOldThumbnails", 0, FALSE, outcome # "ok")
               /\ thumbnails' = TxCommit(thumbnails,
                                         {t \in thumbnails : t.timestamp > clock - age},
                                         IF outcome = "ok" THEN "committed"
                                         ELSE "aborted")
  /\ UNCHANGED <<conn, studies, images, recentFiles, prefs, clock, call>>
  /\ UNCHANGED sessionVars

(***************************************************************************)
(* The recent-file list on its own.                                        *)
(***************************************************************************)
RecentNext ==
  \/ \E studyId \in StudyIds \cup {NoStudyId}, outcome \in RecentOutcomes :
       AddRecentFile(studyId, MaxFiles, outcome)
  \/ \E limit \in 0..MaxLimit, fault \in BOOLEAN : GetRecentFiles(limit, fault)
  \/ \E outcome \in ClearOutcomes : ClearRecentFiles(outcome)
  \/ CallerResumes

RecentSpec == Init /\ [][RecentNext]_vars

(***************************************************************************)
(* The cache tier: the recent-file list and the thumbnail cache.           *)
(***************************************************************************)
CacheNext ==
  \/ \E studyId \in StudyIds \cup {NoStudyId}, outcome \in RecentOutcomes :
       AddRecentFile(studyId, MaxFiles, outcome)
  \/ \E limit \in 0..MaxLimit, fault \in BOOLEAN : GetRecentFiles(limit, fault)
  \/ \E outcome \in ClearOutcomes : ClearRecentFiles(outcome)
  \/ \E imageId \in ThumbnailIds, outcome \in RecentOutcomes : saveThumbnail(imageId, outcome)
  \/ \E imageId \in ThumbnailIds, fault \in BOOLEAN : getThumbnail(imageId, fault)
  \/ \E imageId \in ThumbnailIds, outcome \in RecentOutcomes : deleteThumbnail(imageId, outcome)
  \/ \E age \in 0..MaxAge, outcome \in ClearOutcomes : clearOldThumbnails(age, outcome)
  \/ \E outcome \in ClearOutcomes : clearAllThumbnails(outcome)
  \/ CallerResumes

CacheSpec == Init /\ [][CacheNext]_vars

(***************************************************************************)
(* clearAllStorage beside the operations that fill the stores.             *)
(***************************************************************************)
ClearAllNext ==
  \/ \E id \in StudyIds, files \in {f \in FileLists : Len(f) = 1} : SaveBegin(id, files)
  \/ \E ok \in BOOLEAN : SavePutStudy(ok)
  \/ \E ok \in BOOLEAN : SavePutImage(ok)
  \/ \E commit \in CommitOutcomes, recent \in RecentOutcomes : SaveAddRecent(commit, recent)
  \/ \E imageId \in ThumbnailIds, outcome \in RecentOutcomes : saveThumbnail(imageId, outcome)
  \/ \E outcome \in ClearOutcomes : ClearAllStorage(outcome)
  \/ CallerResumes

ClearAllSpec == Init /\ [][ClearAllNext]_vars

(***************************************************************************)
(* groupDicomFiles (grouping.ts): image handles grouped by study and       *)
(* series.  What the metadata provider returns for a handle is a function  *)
(* of the handle.                                                          *)
(***************************************************************************)
NumHandles == 12       \* image handles 1..NumHandles
MaxHandles == 3        \* longest handle list passed to groupDicomFiles

Handles == 1..NumHandles

HandleLists == UNION {[1..n -> Handles] : n \in 0..MaxHandles}

NoDate == 0

\* metaData.get throws for this handle.
FetchThrows(h) == h = 9

\* generalStudyModule.studyInstanceUID; "" when there is none.
StudyUidOf(h) ==
  CASE h \in 1..6 -> "1.1"
    [] h = 7 -> "1.2"
    [] h = 8 -> "1.3"
    [] h \in {10, 11} -> ""
    [] h = 12 -> "1.4"
    [] OTHER -> "1.5"

\* generalStudyModule.studyDate, as a number that orders as the date string
\* does.
StudyDateOf(h) ==
  CASE h \in 1..7 -> 2
    [] h = 8 -> 3
    [] h \in 10..12 -> NoDate
    [] OTHER -> 1

\* generalSeriesModule.seriesInstanceUID; "" when there is none.
SeriesUidOf(h) ==
  CASE h \in 1..3 -> "1.1.1"
    [] h = 4 -> "1.1.2"
    [] h = 5 -> "1.1.3"
    [] h \in {6, 7, 10} -> ""
    [] h = 8 -> "1.3.1"
    [] h = 11 -> "1.9.1"
    [] h = 12 -> "1.4.1"
    [] OTHER -> "1.1.1"

\* generalSeriesModule.seriesNumber
SeriesNumberOf(h) ==
  CASE h \in {1, 2, 3, 5} -> 2
    [] h \in {4, 12} -> 1
    [] OTHER -> NoNumber

\* generalImageModule.instanceNumber
InstanceNumberOf(h) ==
  CASE h = 1 -> 2
    [] h \in {2, 4, 7, 12} -> 1
    [] h = 11 -> 2
    [] h \in {3, 5, 6, 8, 10} -> NoNumber
    [] OTHER -> 0

unknownStudyId == "unknown-study"
unknownSeriesId == "unknown-series"

\* x || fallback, for a UID string
OrElse(x, fallback) == IF x = "" THEN fallback ELSE x

\* The DicomImage built for imageIds[pos]; pos tells the objects of two
\* occurrences of one handle apart.
DicomImage(imageId, instanceNumber, pos) ==
  [ imageId |-> imageId, instanceNumber |-> instanceNumber, pos |-> pos ]

\* studyMap.get(uid): the index of the study with that UID, 0 when none.
FindStudy(studyMap, uid) ==
  IF \E i \in 1..Len(studyMap) : studyMap[i].studyInstanceUid = uid
  THEN CHOOSE i \in 1..Len(studyMap) : studyMap[i].studyInstanceUid = uid
  ELSE 0

\* study.series.find(...): the index of the first series with that UID, 0
\* when none.
FindSeries(seriesList, uid) ==
  IF \E i \in 1..Len(seriesList) : seriesList[i].seriesInstanceUid = uid
  THEN CHOOSE i \in 1..Len(seriesList) :
         /\ seriesList[i].seriesInstanceUid = uid
         /\ \A j \in 1..(i - 1) : seriesList[j].seriesInstanceUid # uid
  ELSE 0

\* study.series after the series is got or created and the image pushed.
PushToSeries(seriesList, seriesUid, seriesNumber, image) ==
  LET at == FindSeries(seriesList, seriesUid)
      withSeries == IF at # 0 THEN seriesList
                    ELSE Append(seriesList,
                                [ seriesInstanceUid |-> seriesUid,
                                  seriesNumber |-> seriesNumber,
                                  images |-> <<>> ])
      k == IF at # 0 THEN at ELSE Len(withSeries)
  IN [withSeries EXCEPT ![k].images = Append(@, image)]

\* The study map after the study is got or created, the series got or
\* created in it, and the image pushed; the map keeps insertion order.
PushToStudy(studyMap, studyUid, studyDate, seriesUid, seriesNumber, image) ==
  LET at == FindStudy(studyMap, studyUid)
      withStudy == IF at # 0 THEN studyMap
                   ELSE Append(studyMap,
                               [ studyInstanceUid |-> studyUid,
                                 studyDate |-> studyDate,
                                 series |-> <<>> ])
      k == IF at # 0 THEN at ELSE Len(withStudy)
  IN [withStudy EXCEPT ![k].series =
        PushToSeries(@, seriesUid, seriesNumber, image)]

\* A catch block that only logs: the image is left out.
logOnly(studyMap, imageId, pos) == studyMap

addToUnknown(studyMap, imageId, pos) ==
  PushToStudy(studyMap, unknownStudyId, NoDate, unknownSeriesId, NoNumber,
              DicomImage(imageId, NoNumber, pos))

\* One iteration of the loop over imageIds.
GroupImage(studyMap, imageId, pos) ==
  IF FetchThrows(imageId) THEN addToUnknown(studyMap, imageId, pos)
  ELSE PushToStudy(studyMap,
                   OrElse(StudyUidOf(imageId), unknownStudyId),
                   StudyDateOf(imageId),
                   OrElse(SeriesUidOf(imageId), unknownSeriesId),
                   SeriesNumberOf(imageId),
                   DicomImage(imageId, InstanceNumberOf(imageId), pos))

RECURSIVE GroupImages(_, _)
GroupImages(imageIds, n) ==
  IF n = 0 THEN <<>>
  ELSE GroupImage(GroupImages(imageIds, n - 1), imageIds[n], n)

\* Array.prototype.sort, the comparator's values given as the function cmp
\* over pairs of positions: stable, and an element moves before another only when the
\* comparator puts it there.
RECURSIVE InsertSorted(_, _, _)
InsertSorted(sorted, k, cmp) ==
  IF sorted = <<>> THEN <<k>>
  ELSE IF cmp[Head(sorted), k] > 0 THEN <<k>> \o sorted
       ELSE <<Head(sorted)>> \o InsertSorted(Tail(sorted), k, cmp)

RECURSIVE SortedPositions(_, _)
SortedPositions(n, cmp) ==
  IF n = 0 THEN <<>>
  ELSE InsertSorted(SortedPositions(n - 1, cmp), n, cmp)

ArraySort(seq, cmp) ==
  LET at == SortedPositions(Len(seq), cmp)
  IN [i \in 1..Len(seq) |-> seq[at[i]]]

\* (a ?? 0) - (b ?? 0): an undefined number counted as 0.
NumberOrZeroDifference(a, b) ==
  (IF a = NoNumber THEN 0 ELSE a) - (IF b = NoNumber THEN 0 ELSE b)

\* (a ?? Infinity) - (b ?? Infinity), as sort reads it: Infinity - Infinity
\* is NaN, which counts as 0.
NumberOrInfinityDifference(a, b) ==
  CASE a = NoNumber /\ b = NoNumber -> 0
    [] a = NoNumber -> 1
    [] b = NoNumber -> 0 - 1
    [] OTHER -> a - b

CompareSeries(a, b) == NumberOrInfinityDifference(a.seriesNumber, b.seriesNumber)

CompareImages(a, b) == NumberOrInfinityDifference(a.instanceNumber, b.instanceNumber)

localeCompare(x, y) == IF x < y THEN 0 - 1 ELSE IF x > y THEN 1 ELSE 0

\* The study comparator, had it put the older of two dated studies first.
CompareStudiesOldestFirst(a, b) ==
  CASE a.studyDate = NoDate /\ b.studyDate = NoDate -> 0
    [] a.studyDate = NoDate -> 1
    [] b.studyDate = NoDate -> 0 - 1
    [] OTHER -> localeCompare(a.studyDate, b.studyDate)

CompareStudies(a, b) ==
  CASE a.studyDate = NoDate /\ b.studyDate = NoDate -> 0
    [] a.studyDate = NoDate -> 1
    [] b.studyDate = NoDate -> 0 - 1
    [] OTHER -> localeCompare(b.studyDate, a.studyDate)

SortSeriesImages(series) ==
  [series EXCEPT !.images =
     ArraySort(@, [k \in 1..Len(@), l \in 1..Len(@) |-> CompareImages(@[k], @[l])])]

SortStudySeries(study) ==
  LET unsorted == study.series
      sorted == ArraySort(unsorted,
                          [j \in 1..Len(unsorted), k \in 1..Len(unsorted) |->
                             CompareSeries(unsorted[j], unsorted[k])])
  IN [study EXCEPT !.series = [i \in 1..Len(sorted) |-> SortSeriesImages(sorted[i])]]

GroupResult(imageIds) ==
  LET studyList == GroupImages(imageIds, Len(imageIds))
      unsorted == [i \in 1..Len(studyList) |-> SortStudySeries(studyList[i])]
  IN ArraySort(unsorted,
               [i \in 1..Len(unsorted), j \in 1..Len(unsorted) |->
                  CompareStudies(unsorted[i], unsorted[j])])

groupDicomFiles ==
  /\ call.op = "groupDicomFiles"
  /\ last' = [ op |-> "groupDicomFiles", imageIds |-> call.imageIds,
               result |-> GroupResult(call.imageIds) ]
  /\ call' = NoCall
  /\ UNCHANGED <<conn, studies, images, recentFiles, prefs, clock>>
  /\ UNCHANGED thumbVars
  /\ UNCHANGED sessionVars

GroupInit ==
  /\ conn = "unopened"
  /\ studies = {}
  /\ images = {}
  /\ recentFiles = {}
  /\ prefs = NoPrefs
  /\ clock = 1
  /\ \E imageIds \in HandleLists : call = [op |-> "groupDicomFiles", imageIds |-> imageIds]
  /\ last = NoLast
  /\ thumbConn = "unopened"
  /\ thumbnails = {}
  /\ viewer = initialState
  /\ idb = NotStarted
  /\ writers = NoWriters

GroupNext == groupDicomFiles

GroupSpec == GroupInit /\ [][GroupNext]_vars

(***************************************************************************)
(* generateThumbnail (thumbnails.ts): the size of the thumbnail canvas.    *)
(***************************************************************************)
MaxSide == 4           \* largest small canvas side
MaxThumbSize == 4      \* largest small maxSize

DefaultMaxSize == 128

\* Canvas sides and maxSize values: the small ones, and those of a 200 x 100
\* canvas drawn at the default maxSize.
CanvasSides == (1..MaxSide) \cup {100, 200}

ThumbSizes == (1..MaxThumbSize) \cup {DefaultMaxSize}

\* Math.floor(n / d), for n >= 0 and d > 0.
MathFloor(n, d) == n \div d

\* Math.round(n / d), for n >= 0 and d > 0: the nearest integer, a half
\* rounded up.  The quotient is taken exactly.
MathRound(n, d) == (2 * n + d) \div (2 * d)

thumbWidth(width, height, maxSize) ==
  IF width > height THEN maxSize ELSE MathRound(width * maxSize, height)

thumbHeight(width, height, maxSize) ==
  IF width > height THEN MathRound(height * maxSize, width) ELSE maxSize

\* ctx is what thumbCanvas.getContext('2d') returned: without a context
\* the function returns '' after the canvas has been sized.
generateThumbnail(ctx) ==
  /\ call.op = "generateThumbnail"
  /\ last' = [ op |-> "generateThumbnail",
               width |-> call.width, height |-> call.height,
               maxSize |-> call.maxSize,
               thumbWidth |-> thumbWidth(call.width, call.height, call.maxSize),
               thumbHeight |-> thumbHeight(call.width, call.height, call.maxSize),
               result |-> IF ctx THEN "data:image/jpeg" ELSE "" ]
  /\ call' = NoCall
  /\ UNCHANGED <<conn, studies, images, recentFiles, prefs, clock>>
  /\ UNCHANGED thumbVars
  /\ UNCHANGED sessionVars

ThumbInit ==
  /\ conn = "unopened"
  /\ studies = {}
  /\ images = {}
  /\ recentFiles = {}
  /\ prefs = NoPrefs
  /\ clock = 1
  /\ \E width \in CanvasSides, height \in CanvasSides, maxSize \in ThumbSizes :
       call = [ op |-> "generateThumbnail", width |-> width, height |-> height,
                maxSize |-> maxSize ]
  /\ last = NoLast
  /\ thumbConn = "unopened"
  /\ thumbnails = {}
  /\ viewer = initialState
  /\ idb = NotStarted
  /\ writers = NoWriters

ThumbNext == \E ctx \in BOOLEAN : generateThumbnail(ctx)

ThumbSpec == ThumbInit /\ [][ThumbNext]_vars

(***************************************************************************)
(* The study library with every operation that writes its two stores.      *)
(***************************************************************************)
LibraryNext ==
  \/ \E id \in StudyIds, files \in FileLists : SaveBegin(id, files)
  \/ \E ok \in BOOLEAN : SavePutStudy(ok)
  \/ \E ok \in BOOLEAN : SavePutImage(ok)
  \/ \E commit \in CommitOutcomes, recent \in RecentOutcomes : SaveAddRecent(commit, recent)
  \/ \E id \in StudyIds : DeleteBegin(id)
  \/ \E ok \in BOOLEAN : DeleteStudyRequest(ok)
  \/ \E ok \in BOOLEAN : DeleteEnumerate(ok)
  \/ \E ok \in BOOLEAN : DeleteImage(ok)
  \/ \E commit \in CommitOutcomes : DeleteReturn(commit)
  \/ \E id \in StudyIds, fault \in LoadFaults : LoadStudy(id, fault)
  \/ \E outcome \in ClearOutcomes : ClearLibrary(outcome)
  \/ \E outcome \in ClearOutcomes : ClearAllStorage(outcome)
  \/ CallerResumes

LibrarySpec == Init /\ [][LibraryNext]_vars

(***************************************************************************)
(* Saves of longer file lists, over all four kinds of file.                *)
(***************************************************************************)
NumSaveFiles == 4      \* files 1..NumSaveFiles are passed to these saves
MaxSaveFiles == 3      \* longest file list passed to one of these saves

LongFileLists ==
  { files \in UNION {[1..n -> 1..NumSaveFiles] : n \in 1..MaxSaveFiles} :
      \A i, j \in DOMAIN files : i # j => files[i] # files[j] }

SaveNext ==
  \/ \E id \in StudyIds, files \in LongFileLists : SaveBegin(id, files)
  \/ \E ok \in BOOLEAN : SavePutStudy(ok)
  \/ \E ok \in BOOLEAN : SavePutImage(ok)
  \/ \E commit \in CommitOutcomes, recent \in RecentOutcomes : SaveAddRecent(commit, recent)
  \/ CallerResumes

SaveSpec == Init /\ [][SaveNext]_vars

(***************************************************************************)
(* The viewer store (useStore), the file loader, the Viewer component and  *)
(* the two handlers that talk to the library.  A file and the handle that  *)
(* the image loader gives it carry the same number; indexes count from 0   *)
(* as in the code.                                                         *)
(***************************************************************************)
NumViewerFiles == 5    \* files 1..NumViewerFiles can be picked
MaxViewerFiles == 2    \* longest run of files picked at once

\* A File that the user picked, and a File that loadStudyFromLibrary built
\* from the bytes of a stored row.
PickedFile(b) == [bytes |-> b, made |-> "picked"]
LibraryFile(b) == [bytes |-> b, made |-> "library"]

\* The picks: runs of neighbouring files.
ViewerFileLists ==
  { [i \in 1..n |-> first + i - 1] :
      first \in 1..NumViewerFiles, n \in 1..MaxViewerFiles } \cap
  UNION {[1..n -> 1..NumViewerFiles] : n \in 1..MaxViewerFiles}

\* The series of the studies, in order.
RECURSIVE AllSeries(_)
AllSeries(studyList) ==
  IF studyList = <<>> THEN <<>>
  ELSE Head(studyList).series \o AllSeries(Tail(studyList))

\* flattenStudies: the image ids study by study, series by series.
RECURSIVE ImageIdsOfSeries(_)
ImageIdsOfSeries(seriesList) ==
  IF seriesList = <<>> THEN <<>>
  ELSE [i \in 1..Len(Head(seriesList).images) |-> Head(seriesList).images[i].imageId]
       \o ImageIdsOfSeries(Tail(seriesList))

flattenStudies(studyList) == ImageIdsOfSeries(AllSeries(studyList))

\* setStudies: one range per series, from the running image index.
RECURSIVE RangesFrom(_, _)
RangesFrom(seriesList, imageIndex) ==
  IF seriesList = <<>> THEN <<>>
  ELSE <<[ start |-> imageIndex,
           end |-> imageIndex + Len(Head(seriesList).images) - 1,
           seriesId |-> Head(seriesList).seriesInstanceUid ]>>
       \o RangesFrom(Tail(seriesList), imageIndex + Len(Head(seriesList).images))

SeriesRanges(studyList) == RangesFrom(AllSeries(studyList), 0)

\* As StartsBoundary, with the first series included.
StartsBoundaryFromZero(imageIndex) == imageIndex >= 0

\* if (imageIndex > 0) boundaries.push(imageIndex)
StartsBoundary(imageIndex) == imageIndex > 0

\* The effect of the Viewer component that follows `studies`.
RECURSIVE BoundariesFrom(_, _)
BoundariesFrom(seriesList, imageIndex) ==
  IF seriesList = <<>> THEN <<>>
  ELSE (IF StartsBoundary(imageIndex) THEN <<imageIndex>> ELSE <<>>)
       \o BoundariesFrom(Tail(seriesList), imageIndex + Len(Head(seriesList).images))

seriesBoundaries(studyList) == BoundariesFrom(AllSeries(studyList), 0)

\* extractMetadata(imageId), of which the study instance UID is kept; a
\* throw of the provider gives the empty metadata.
extractMetadata(h) ==
  [ present |-> TRUE,
    studyInstanceUid |-> IF FetchThrows(h) THEN "" ELSE StudyUidOf(h) ]

\* The effects of useViewport: the metadata of the displayed image is
\* stored when imageIds[currentImageIndex] is an image id.
WithMetadata(v) ==
  IF v.currentImageIndex >= 0 /\ v.currentImageIndex < Len(v.currentImageIds)
  THEN [v EXCEPT !.currentMetadata =
                   extractMetadata(v.currentImageIds[v.currentImageIndex + 1])]
  ELSE v

\* loadFiles up to `await groupDicomFiles(imageIds)`: every picked file is
\* a DICOM file and is registered.
loadFiles(files) ==
  /\ Idle
  /\ call' = [op |-> "groupDicomFiles", imageIds |-> files]
  /\ UNCHANGED <<conn, studies, images, recentFiles, prefs, clock, last>>
  /\ UNCHANGED thumbVars
  /\ UNCHANGED sessionVars

\* loadFiles after the await: setStudies, setCurrentImageIds,
\* setLoadedFiles, setIsInLibrary(false).
LoadFilesResumes ==
  /\ call = NoCall
  /\ last.op = "groupDicomFiles"
  /\ viewer' = WithMetadata(
       [viewer EXCEPT !.studies = last.result,
                      !.seriesRanges = SeriesRanges(last.result),
                      !.currentImageIds = flattenStudies(last.result),
                      !.currentImageIndex = 0,
                      !.loadedFiles = [i \in 1..Len(last.imageIds) |->
                                         PickedFile(last.imageIds[i])],
                      !.isInLibrary = FALSE,
                      !.producedFrom = [i \in 1..Len(last.imageIds) |->
                                          PickedFile(last.imageIds[i])]])
  /\ last' = NoLast
  /\ UNCHANGED <<conn, studies, images, recentFiles, prefs, clock, call>>
  /\ UNCHANGED thumbVars
  /\ UNCHANGED <<idb, writers>>

\* handleLoadStudyFromLibrary after `await loadStudyFromLibrary(studyId)`:
\* setCurrentImageIds and setCurrentStudyId, or setError.
LoadFromLibraryResumes ==
  /\ call = NoCall
  /\ last.op = "load"
  /\ viewer' = IF last.result = "ok"
               THEN WithMetadata(
                      [viewer EXCEPT !.currentImageIds = last.handles,
                                     !.currentImageIndex = 0,
                                     !.currentStudyId = last.id,
                                     !.producedFrom = [i \in 1..Len(last.handles) |->
                                                         LibraryFile(last.handles[i])]])
               ELSE viewer
  /\ last' = NoLast
  /\ UNCHANGED <<conn, studies, images, recentFiles, prefs, clock, call>>
  /\ UNCHANGED thumbVars
  /\ UNCHANGED <<idb, writers>>

\* The first range that holds the index, 0 when none does.
SeriesIndexOf(ranges, index) ==
  IF \E i \in 1..Len(ranges) : index >= ranges[i].start /\ index <= ranges[i].end
  THEN (CHOOSE i \in 1..Len(ranges) :
          /\ index >= ranges[i].start /\ index <= ranges[i].end
          /\ \A j \in 1..(i - 1) : ~(index >= ranges[j].start /\ index <= ranges[j].end))
       - 1
  ELSE 0

setCurrentImageIndex(index) ==
  /\ viewer' = WithMetadata(
       [viewer EXCEPT !.currentImageIndex = index,
                      !.currentSeriesIndex = SeriesIndexOf(viewer.seriesRanges, index)])
  /\ UNCHANGED <<conn, studies, images, recentFiles, prefs, clock, call, last>>
  /\ UNCHANGED thumbVars
  /\ UNCHANGED <<idb, writers>>

Max(a, b) == IF a >= b THEN a ELSE b

\* [...seriesBoundaries].reverse().find(b => b < index) ?? 0
PrevBoundary(boundaries, index) ==
  IF \E i \in 1..Len(boundaries) : boundaries[i] < index
  THEN boundaries[CHOOSE i \in 1..Len(boundaries) :
                    /\ boundaries[i] < index
                    /\ \A j \in (i + 1)..Len(boundaries) : ~(boundaries[j] < index)]
  ELSE 0

\* seriesBoundaries.find(b => b > index) ?? length - 1
NextBoundary(boundaries, index, length) ==
  IF \E i \in 1..Len(boundaries) : boundaries[i] > index
  THEN boundaries[CHOOSE i \in 1..Len(boundaries) :
                    /\ boundaries[i] > index
                    /\ \A j \in 1..(i - 1) : ~(boundaries[j] > index)]
  ELSE length - 1

NavigationKeys == {"ArrowLeft", "ArrowRight", "Home", "End", "PageUp", "PageDown"}

\* The index that the keydown handler of the Viewer passes on.
KeyTarget(key, v) ==
  LET index == v.currentImageIndex
      length == Len(v.currentImageIds)
  IN CASE key = "ArrowLeft" -> Max(0, index - 1)
       [] key = "ArrowRight" -> IF length - 1 <= index + 1 THEN length - 1 ELSE index + 1
       [] key = "Home" -> 0
       [] key = "End" -> length - 1
       [] key = "PageUp" -> PrevBoundary(seriesBoundaries(v.studies), index)
       [] OTHER -> NextBoundary(seriesBoundaries(v.studies), index, length)

\* The Viewer is mounted while there are images.
handleKeyDown(key) ==
  /\ Len(viewer.currentImageIds) > 0
  /\ setCurrentImageIndex(KeyTarget(key, viewer))

\* Math.max(0, Math.min(length - 1, index + delta))
Clamped(index, length) ==
  Max(0, IF length - 1 <= index THEN length - 1 ELSE index)

handleWheel(delta) ==
  /\ Len(viewer.currentImageIds) > 1
  /\ Clamped(viewer.currentImageIndex + delta, Len(viewer.currentImageIds))
       # viewer.currentImageIndex
  /\ setCurrentImageIndex(Clamped(viewer.currentImageIndex + delta,
                                  Len(viewer.currentImageIds)))

\* A thumbnail of the strip is clicked; the strip shows one per image id.
selectThumbnail(index) ==
  /\ Len(viewer.currentImageIds) > 1
  /\ index < Len(viewer.currentImageIds)
  /\ setCurrentImageIndex(index)

\* nextSeries and prevSeries of the store.  seriesRanges[index].start
\* throws when there is no such range, and nothing is set.
GoToSeries(index) ==
  /\ index >= 0 /\ index < Len(viewer.seriesRanges)
  /\ viewer' = WithMetadata(
       [viewer EXCEPT !.currentSeriesIndex = index,
                      !.currentImageIndex = viewer.seriesRanges[index + 1].start])
  /\ UNCHANGED <<conn, studies, images, recentFiles, prefs, clock, call, last>>
  /\ UNCHANGED thumbVars
  /\ UNCHANGED <<idb, writers>>

nextSeries ==
  /\ viewer.currentSeriesIndex < Len(viewer.seriesRanges) - 1
  /\ GoToSeries(viewer.currentSeriesIndex + 1)

prevSeries ==
  /\ viewer.currentSeriesIndex > 0
  /\ GoToSeries(viewer.currentSeriesIndex - 1)

\* The key of the library for a study instance UID.
StudyKey(uid) ==
  CASE uid = "1.1" -> 1
    [] uid = "1.2" -> 2
    [] uid = "1.3" -> 3
    [] uid = "1.4" -> 4
    [] OTHER -> 5

\* currentMetadata.studyInstanceUid || `study-${Date.now()}`
SaveStudyId(metadata, now) ==
  IF metadata.studyInstanceUid # "" THEN StudyKey(metadata.studyInstanceUid)
  ELSE NameTimeId(now)

\* setIsSaving(true) ... finally setIsSaving(false)
isSaving == call.op = "save" \/ last.op = "save"

\* What the button and the keyboard shortcut of the toolbar require.
SaveEnabled ==
  /\ Len(viewer.currentImageIds) > 0
  /\ ~viewer.isInLibrary
  /\ ~isSaving
  /\ Len(viewer.loadedFiles) > 0

\* handleSaveToLibrary up to the first step of saveStudyToLibrary; the
\* user confirms.
handleSaveToLibrary ==
  /\ SaveEnabled
  /\ viewer.currentMetadata.present
  /\ clock + 4 <= MaxClock
  /\ SaveBegin(SaveStudyId(viewer.currentMetadata, clock),
               [i \in 1..Len(viewer.loadedFiles) |-> viewer.loadedFiles[i].bytes])

\* handleSaveToLibrary after `await saveStudyToLibrary(...)`: a rejection
\* goes to the catch block; otherwise addRecentFile is awaited and then
\* setIsInLibrary(true).
SaveToLibraryResumes(outcome) ==
  /\ call = NoCall
  /\ last.op = "save"
  /\ IF last.result # "ok"
     THEN UNCHANGED <<viewer, recentFiles, clock>>
     ELSE /\ recentFiles' =
               TxCommit(recentFiles,
                        PutRecentRow(recentFiles,
                                     RecentFile(last.id, Len(last.files), clock)),
                        IF outcome = "ok" THEN "committed" ELSE "aborted")
          /\ clock' = clock + 1
          /\ viewer' = [viewer EXCEPT !.isInLibrary = (@ \/ outcome # "error")]
  /\ last' = NoLast
  /\ UNCHANGED <<conn, studies, images, prefs, call>>
  /\ UNCHANGED thumbVars
  /\ UNCHANGED <<idb, writers>>

\* The Viewer state after a grouping of its own.
FlattenInit == GroupInit /\ call.imageIds # <<>>

FlattenNext == groupDicomFiles \/ LoadFilesResumes

FlattenSpec == FlattenInit /\ [][FlattenNext]_vars

ViewerNext ==
  \/ \E files \in ViewerFileLists : loadFiles(files)
  \/ groupDicomFiles
  \/ LoadFilesResumes
  \/ \E id \in StudyIds, fault \in {"none", "getAll"} : LoadStudy(id, fault)
  \/ LoadFromLibraryResumes
  \/ \E key \in NavigationKeys : handleKeyDown(key)
  \/ \E delta \in {0 - 1, 1} : handleWheel(delta)
  \/ \E index \in 0..(NumViewerFiles - 1) : selectThumbnail(index)
  \/ nextSeries
  \/ prevSeries
  \/ handleSaveToLibrary
  \/ \E ok \in BOOLEAN : SavePutStudy(ok)
  \/ \E ok \in BOOLEAN : SavePutImage(ok)
  \/ \E commit \in CommitOutcomes, recent \in RecentOutcomes : SaveAddRecent(commit, recent)
  \/ \E outcome \in RecentOutcomes : SaveToLibraryResumes(outcome)

ViewerSpec == Init /\ [][ViewerNext]_vars

(***************************************************************************)
(* The database 'DicomViewerDB' and the two modules that open it: the      *)
(* preferences module, whose getDB the recent files and the study library  *)
(* share, and the thumbnail cache with a getDB of its own.  A page holds   *)
(* one dbPromise per module; a reload starts a new page on the database    *)
(* that the pages before left behind.                                      *)
(***************************************************************************)
MaxPages == 2          \* pages of the application that are loaded in turn

StorageVersion == 2
ThumbnailVersion == 1

Modules == {"preferences", "thumbnails"}

Callers == {"preferences", "recentFiles", "library", "thumbnails"}

\* The module whose getDB the caller calls.
ModuleOf(c) == IF c = "thumbnails" THEN "thumbnails" ELSE "preferences"

\* A store that the caller writes.
StoreOf(c) ==
  CASE c = "preferences" -> "preferences"
    [] c = "recentFiles" -> "recentFiles"
    [] c = "library" -> "studies"
    [] OTHER -> "thumbnails"

DB_VERSION(m) == IF m = "preferences" THEN StorageVersion ELSE ThumbnailVersion

\* indexes holds <<store, index>>; rows holds the stores that have a row.
NoDatabase == [version |-> 0, stores |-> {}, indexes |-> {}, rows |-> {}]

\* What the preferences module left when its DB_VERSION was 1.
PreferencesV1 ==
  [ version |-> 1, stores |-> {"preferences", "recentFiles"},
    indexes |-> {<<"recentFiles", "timestamp">>},
    rows |-> {"preferences", "recentFiles"} ]

\* if (!db.objectStoreNames.contains(name)) { createObjectStore; createIndex }
CreateStore(db, name, indexNames) ==
  IF name \in db.stores THEN db
  ELSE [db EXCEPT !.stores = @ \cup {name},
                  !.indexes = @ \cup {<<name, i>> : i \in indexNames}]

\* onupgradeneeded of the preferences module; oldVersion is db.version.
UpgradeStorage(db) ==
  LET v1 == CreateStore(CreateStore(db, "preferences", {}),
                        "recentFiles", {"timestamp"})
  IN IF db.version < 2
     THEN CreateStore(
            CreateStore(
              CreateStore(v1, "studies", {"importedAt", "lastViewedAt"}),
              "images", {"studyId", "seriesId"}),
            "thumbnails", {"studyId"})
     ELSE v1

\* onupgradeneeded of the thumbnail cache.
UpgradeThumbnails(db) == CreateStore(db, "thumbnails", {"timestamp"})

Upgrade(m, db) == IF m = "preferences" THEN UpgradeStorage(db) ELSE UpgradeThumbnails(db)

\* A page that has called no getDB yet.  A connection is named after the
\* module whose open request gave it.
NewPage(db, n) ==
  [ started |-> TRUE, db |-> db, page |-> n,
    dbPromise |-> [m \in Modules |-> "null"],
    opens |-> 0,
    connections |-> {},
    got |-> [c \in Callers |-> "none"] ]

\* What `await getDB()` gives for a dbPromise in this state.
Awaited(m, state) ==
  CASE state = "resolved" -> m
    [] state = "rejected" -> "rejected"
    [] OTHER -> "waiting"

\* getDB of the caller's module: the cached promise, or a new promise with
\* its indexedDB.open request.
getDB(c) ==
  /\ idb.got[c] = "none"
  /\ LET m == ModuleOf(c) IN
       idb' = IF idb.dbPromise[m] = "null"
              THEN [idb EXCEPT !.dbPromise[m] = "pending",
                               !.opens = @ + 1,
                               !.got[c] = "waiting"]
              ELSE [idb EXCEPT !.got[c] = Awaited(m, idb.dbPromise[m])]
  /\ UNCHANGED <<conn, studies, images, recentFiles, prefs, clock, call, last>>
  /\ UNCHANGED thumbVars
  /\ UNCHANGED <<viewer, writers>>

\* The open request of module m settles.  A version below that of the
\* database is a VersionError; a version above it waits for as long as
\* another connection is open, since no connection handles versionchange
\* and there is no onblocked handler; otherwise onupgradeneeded runs when
\* the version rises, and onsuccess follows.
OpenSettles(m, ok) ==
  /\ idb.dbPromise[m] = "pending"
  /\ ~(idb.db.version < DB_VERSION(m) /\ idb.connections # {})
  /\ LET opened == ok /\ idb.db.version <= DB_VERSION(m)
         state == IF opened THEN "resolved" ELSE "rejected"
     IN idb' = [idb EXCEPT
                  !.dbPromise[m] = state,
                  !.db = IF opened /\ idb.db.version < DB_VERSION(m)
                         THEN [Upgrade(m, idb.db) EXCEPT !.version = DB_VERSION(m)]
                         ELSE @,
                  !.connections = IF opened THEN @ \cup {m} ELSE @,
                  !.got = [c \in Callers |->
                             IF idb.got[c] = "waiting" /\ ModuleOf(c) = m
                             THEN Awaited(m, state) ELSE idb.got[c]]]
  /\ UNCHANGED <<conn, studies, images, recentFiles, prefs, clock, call, last>>
  /\ UNCHANGED thumbVars
  /\ UNCHANGED <<viewer, writers>>

\* A caller that holds a connection puts a row into its store.
PutRow(c) ==
  /\ idb.got[c] \in Modules
  /\ StoreOf(c) \in idb.db.stores
  /\ idb' = [idb EXCEPT !.db.rows = @ \cup {StoreOf(c)}]
  /\ UNCHANGED <<conn, studies, images, recentFiles, prefs, clock, call, last>>
  /\ UNCHANGED thumbVars
  /\ UNCHANGED <<viewer, writers>>

\* The page is reloaded: its connections close and the modules start anew.
Reload ==
  /\ idb.page < MaxPages
  /\ idb' = NewPage(idb.db, idb.page + 1)
  /\ UNCHANGED <<conn, studies, images, recentFiles, prefs, clock, call, last>>
  /\ UNCHANGED thumbVars
  /\ UNCHANGED <<viewer, writers>>

DatabaseInit ==
  /\ conn = "unopened"
  /\ studies = {}
  /\ images = {}
  /\ recentFiles = {}
  /\ prefs = NoPrefs
  /\ clock = 1
  /\ call = NoCall
  /\ last = NoLast
  /\ thumbConn = "unopened"
  /\ thumbnails = {}
  /\ viewer = initialState
  /\ \E db \in {NoDatabase, PreferencesV1} : idb = NewPage(db, 1)
  /\ writers = NoWriters

DatabaseNext ==
  \/ \E c \in Callers : getDB(c)
  \/ \E m \in Modules, ok \in BOOLEAN : OpenSettles(m, ok)
  \/ \E c \in Callers : PutRow(c)
  \/ Reload

DatabaseSpec == DatabaseInit /\ [][DatabaseNext]_vars

(***************************************************************************)
(* Preference writes that overlap: a setPreference is called while another *)
(* has not completed.                                                      *)
(***************************************************************************)
NumWriters == 2        \* calls of setPreference that are in progress together

\* What the calls pass to savePreferences: one key each.
WriterPartials ==
  PartialPreferences \cup { [invertColors |-> TRUE], [showMetadataSidebar |-> FALSE] }

IdleWriter == [pc |-> "idle"]

\* setPreference(key, value) up to `await getPreferences()` of
\* savePreferences: the readwrite transaction is created and the task ends
\* with no request placed on it.
setPreference(w, partial) ==
  /\ writers[w].pc = "idle"
  /\ \E c \in OpenOutcomes(conn) :
       /\ conn' = c
       /\ writers' =
            [writers EXCEPT ![w] =
               IF c = "failed"
               THEN [ pc |-> "done", partial |-> partial, rejected |-> FALSE,
                      fault |-> TRUE ]
               ELSE [ pc |-> "reading", partial |-> partial,
                      tx |-> TxAtTaskEnd([state |-> "active", pending |-> 0]) ]]
  /\ UNCHANGED <<studies, images, recentFiles, prefs, clock, call, last>>
  /\ UNCHANGED thumbVars
  /\ UNCHANGED <<viewer, idb>>

\* getPreferences resolves inside savePreferences.
WriterReads(w, fault) ==
  /\ writers[w].pc = "reading"
  /\ writers' =
       [writers EXCEPT ![w] =
          [ pc |-> "putting", partial |-> writers[w].partial, tx |-> writers[w].tx,
            current |-> IF fault THEN DEFAULT_PREFERENCES ELSE PreferencesOf(prefs),
            fault |-> fault ]]
  /\ UNCHANGED <<conn, studies, images, recentFiles, prefs, clock, call, last>>
  /\ UNCHANGED thumbVars
  /\ UNCHANGED <<viewer, idb>>

\* store.put({ key: 'userPreferences', value: { ...current, ...prefs } })
\* on the readwrite transaction, which throws when that transaction has
\* finished; the promise is returned from inside the try block, so the
\* call rejects.
WriterPuts(w, putOk) ==
  /\ writers[w].pc = "putting"
  /\ IF writers[w].tx.state # "active"
     THEN /\ prefs' = prefs
          /\ writers' = [writers EXCEPT ![w] =
                           [ pc |-> "done", partial |-> writers[w].partial,
                             rejected |-> TRUE, fault |-> writers[w].fault ]]
     ELSE /\ prefs' = TxCommit(prefs,
                               [ present |-> TRUE,
                                 value |-> Spread(writers[w].current,
                                                  writers[w].partial) ],
                               IF putOk THEN "committed" ELSE "aborted")
          /\ writers' = [writers EXCEPT ![w] =
                           [ pc |-> "done", partial |-> writers[w].partial,
                             rejected |-> ~putOk,
                             fault |-> (writers[w].fault \/ ~putOk) ]]
  /\ UNCHANGED <<conn, studies, images, recentFiles, clock, call, last>>
  /\ UNCHANGED thumbVars
  /\ UNCHANGED <<viewer, idb>>

OverlapInit ==
  /\ conn = "unopened"
  /\ studies = {}
  /\ images = {}
  /\ recentFiles = {}
  /\ prefs = NoPrefs
  /\ clock = 1
  /\ call = NoCall
  /\ last = NoLast
  /\ thumbConn = "unopened"
  /\ thumbnails = {}
  /\ viewer = initialState
  /\ idb = NotStarted
  /\ writers = [w \in 1..NumWriters |-> IdleWriter]

OverlapNext ==
  \/ \E w \in 1..NumWriters, partial \in WriterPartials : setPreference(w, partial)
  \/ \E w \in 1..NumWriters, fault \in BOOLEAN : WriterReads(w, fault)
  \/ \E w \in 1..NumWriters, putOk \in BOOLEAN : WriterPuts(w, putOk)

OverlapSpec == OverlapInit /\ [][OverlapNext]_vars

(***************************************************************************)
(* Properties                                                              *)
(***************************************************************************)
LibraryStores == <<studies, images>>

\* C1: for every StoredStudy row, the number of StoredImage rows that carry
\* its id as studyId is exactly its imageCount, whenever no call is in
\* progress.
ImageCountMatchesRows ==
  call = NoCall =>
    \A s \in studies : Cardinality(ImagesOfStudy(images, s.id)) = s.imageCount

\* C2: when deleteStudy(id) has returned without error, isInLibrary(id) is
\* false and no StoredImage row has studyId = id, whatever the requests
\* inside the call reported.
DeleteCompleteness ==
  (last.op = "delete" /\ last.result = "ok") =>
    /\ ~(CountStudy(studies, last.id) > 0)
    /\ ImagesOfStudy(images, last.id) = {}

RECURSIVE Occurrences(_, _)
Occurrences(seq, x) ==
  IF seq = <<>> THEN 0
  ELSE (IF Head(seq) = x THEN 1 ELSE 0) + Occurrences(Tail(seq), x)

\* C3: when a save has returned with no storage error, what loadStudy of
\* the same id then returns has one handle per saved file, each handle built
\* from the bytes of one saved file, in ascending order of the files'
\* instance numbers.
RoundTrip ==
  (last.op = "save" /\ last.result = "ok" /\ ~last.fault) =>
    LET handles == LoadHandles(images, last.id, "none") IN
    /\ LoadFound(studies, last.id, "none")
    /\ Len(handles) = Len(last.files)
    /\ \A b \in FileBytes : Occurrences(handles, b) = Occurrences(last.files, b)
    /\ \A i, j \in 1..Len(handles) :
         (i < j /\ InstanceOf(handles[i]) # NoNumber
                /\ InstanceOf(handles[j]) # NoNumber)
           => InstanceOf(handles[i]) <= InstanceOf(handles[j])

\* C4: when saveStudy has returned its StoredStudy, the study row of that
\* save is stored and isInLibrary(id) is true: no failure to persist it,
\* a failure of the commit included, goes by without a rejection.
SaveReturnsOnlyWhenPersisted ==
  (last.op = "save" /\ last.result = "ok") =>
    /\ last.study \in studies
    /\ CountStudy(studies, last.id) > 0

\* C5: a save whose study put or image put failed leaves no study row of
\* that save in the stores, and while a save is in progress its study row
\* is never stored beside only some of its image rows.
SaveAllOrNothing ==
  /\ (last.op = "save" /\ last.failedAt \in {"studyPut", "imagePut"}) =>
       last.study \notin studies
  /\ call.op = "save" =>
       (call.study \in studies =>
          \A i \in 1..Len(call.storedImages) : call.storedImages[i] \in images)

\* C5 witness: an image put failed after at least one image put of the same
\* save had succeeded.
SaveFailedPartway ==
  last.op = "save" /\ last.failedAt = "imagePut" /\ last.written >= 1

\* C6: with the connection failed, loadStudy, listStudies, isInLibrary,
\* clearLibrary, getPreferences and savePreferences complete with their safe
\* default and do not reject.
SafeDefaultWithoutConnection ==
  conn = "failed" =>
    /\ last.op = "load" => last.result = "null"
    /\ last.op = "list" => (~last.rejected /\ last.result = <<>>)
    /\ last.op = "isInLibrary" => (~last.rejected /\ last.result = FALSE)
    /\ last.op = "clearLibrary" => ~last.rejected
    /\ last.op = "getPreferences" =>
         (~last.rejected /\ last.result = DEFAULT_PREFERENCES)
    /\ last.op = "savePreferences" => ~last.rejected

\* C7: a deleteStudy(id) that completed with no storage error leaves no
\* study row for id, so a second call finds none; and every step of a call
\* that finds no study row for id leaves all stores as they were, the call
\* returning without error when storage reported no error during it.
IdempotentDelete ==
  [][ /\ (last'.op = "delete" /\ last'.result = "ok" /\ ~last'.fault) =>
           ~HasStudy(studies', last'.id)
      /\ (call.op = "delete" /\ call.noRow) =>
           /\ UNCHANGED Stores
           /\ (call'.op = "none" /\ ~last'.fault) =>
                (last'.op = "delete" /\ last'.result = "ok") ]_vars

\* C7 witness: a delete of an id without a study row has returned while
\* rows of another study are stored.
DeletedAbsentStudy ==
  /\ last.op = "delete" /\ last.noRow /\ ~last.fault /\ last.result = "ok"
  /\ studies # {} /\ images # {}

\* C8: loadStudy(id) on an opened store that has no study row for id
\* returns null, registers no image and changes no store.
LoadUnknownIsNull ==
  [][ (call = NoCall /\ last'.op = "load" /\ conn' = "open"
         /\ ~HasStudy(studies, last'.id)) =>
        /\ last'.result = "null"
        /\ last'.handles = <<>>
        /\ UNCHANGED Stores ]_vars

\* C8 witness: a load of an id without a study row returned null while
\* another study is stored.
LoadedUnknownStudy ==
  /\ last.op = "load" /\ last.result = "null" /\ ~last.fault
  /\ ~HasStudy(studies, last.id) /\ studies # {} /\ images # {}

\* C9: listStudies returns every StoredStudy row exactly once in
\* non-increasing lastViewedAt order, and after a loadStudy or saveStudy
\* that completed without a storage error the study it named is the first
\* element of what listStudies returns next.
ListMostRecentFirst ==
  /\ (last.op = "list" /\ ~last.fault) =>
       /\ Len(last.result) = Cardinality(studies)
       /\ \A s \in studies : Occurrences(last.result, s) = 1
       /\ \A i, j \in 1..Len(last.result) :
            i < j => last.result[i].lastViewedAt >= last.result[j].lastViewedAt
  /\ (last.op \in {"load", "save"} /\ last.result = "ok" /\ ~last.fault) =>
       /\ LibraryCursor(studies) # <<>>
       /\ Head(LibraryCursor(studies)).id = last.id

\* C9 witness: a listing of two studies whose first element was imported
\* before the second, so a later load moved it to the front.
ListedReorderedStudies ==
  /\ last.op = "list" /\ ~last.fault /\ Len(last.result) = 2
  /\ last.result[1].importedAt < last.result[2].importedAt

\* C10: getPreferences on a never-written store returns DEFAULT_PREFERENCES,
\* and once savePreferences({showPhiData: true}) has completed on it with no
\* storage error, getPreferences returns showPhiData = true with every other
\* key at its default.
PreferenceWriteTakesEffect ==
  /\ (last.op = "getPreferences" /\ ~prefs.present) =>
       last.result = DEFAULT_PREFERENCES
  /\ (last.op = "savePreferences" /\ ~last.fault
        /\ last.partial = [showPhiData |-> TRUE]) =>
       PreferencesOf(prefs) = [DEFAULT_PREFERENCES EXCEPT !.showPhiData = TRUE]

\* C18: a save that rejects because a study put or an image put failed
\* with QuotaExceededError rejects with an error other than the one it
\* rejects with when the same put fails for another reason.
QuotaFailureIsDistinct ==
  (last.op = "save" /\ last.failedAt \in {"studyPut", "imagePut"}
     /\ last.cause = "QuotaExceededError") =>
    last.error # SaveError(last.failedAt, "UnknownError")

Min(a, b) == IF a <= b THEN a ELSE b

\* C11: a getRecentFiles(limit) that met no storage error returns exactly
\* min(limit, n) of the n stored entries, each once; no entry left out has
\* a larger timestamp than one returned; and the entries returned are in
\* descending timestamp order.
RecentFilesBound ==
  (last.op = "getRecentFiles" /\ ~last.fault) =>
    LET files == last.result IN
    /\ Len(files) = Min(last.limit, Cardinality(recentFiles))
    /\ \A i \in 1..Len(files) : files[i] \in recentFiles
    /\ \A i, j \in 1..Len(files) : i < j => files[i].timestamp > files[j].timestamp
    /\ \A r \in recentFiles :
         (\A i \in 1..Len(files) : files[i] # r) =>
           \A i \in 1..Len(files) : r.timestamp <= files[i].timestamp

\* C11 witness: a listing of two entries that left at least one stored
\* entry out.
RecentListTruncated ==
  /\ last.op = "getRecentFiles" /\ ~last.fault
  /\ Len(last.result) >= 2
  /\ Cardinality(recentFiles) > Len(last.result)

\* C12: the recent-file store never holds two entries with one studyId, and
\* after an addRecentFile with a studyId that met no storage error the
\* entry of that study is the one just built, whose timestamp no stored
\* entry exceeds.
OneRecentEntryPerStudy ==
  /\ \A r, q \in recentFiles :
       (r.studyId = q.studyId /\ r.studyId # NoStudyId) => r = q
  /\ (last.op = "addRecentFile" /\ ~last.fault /\ last.studyId # NoStudyId) =>
       /\ last.row \in recentFiles
       /\ \A r \in recentFiles : r.timestamp <= last.row.timestamp

\* C12 witness: an add for a study that already had an entry, made while
\* another entry is stored as well.
RecentEntryReplaced ==
  /\ last.op = "addRecentFile" /\ ~last.fault /\ last.replaced
  /\ Cardinality(recentFiles) >= 2

\* C13: when a clearAllStorage that met no storage error has completed,
\* the preferences, recentFiles, studies, images and thumbnails stores are
\* empty: the preferences read are the defaults and the recent-file and
\* library listings are empty.
ClearAllEmptiesEveryStore ==
  (last.op = "clearAllStorage" /\ ~last.fault) =>
    /\ ~prefs.present
    /\ PreferencesOf(prefs) = DEFAULT_PREFERENCES
    /\ recentFiles = {}
    /\ TakeWhileBelow(RecentCursor(recentFiles), <<>>, MaxLimit) = <<>>
    /\ studies = {}
    /\ LibraryCursor(studies) = <<>>
    /\ images = {}
    /\ thumbnails = {}

\* C13 witness: a clearAllStorage completed that found rows in the
\* recentFiles, studies, images and thumbnails stores.
ClearedEveryFilledStore ==
  /\ last.op = "clearAllStorage" /\ ~last.fault
  /\ last.held = {"recentFiles", "studies", "images", "thumbnails"}

\* C19: saveThumbnail, getThumbnail, deleteThumbnail, clearOldThumbnails,
\* clearAllThumbnails, addRecentFile, getRecentFiles and clearRecentFiles
\* never reject, also when a request reports an error on an opened
\* connection.
CacheOperationsNeverReject ==
  last.op \in {"saveThumbnail", "getThumbnail", "deleteThumbnail",
               "clearOldThumbnails", "clearAllThumbnails", "addRecentFile",
               "getRecentFiles", "clearRecentFiles"} =>
    ~last.rejected

\* The places <<i, j, k>> of a grouped result: image k of series j of
\* study i.
ImagePlaces(res) ==
  { p \in (1..MaxHandles) \X (1..MaxHandles) \X (1..MaxHandles) :
      /\ p[1] <= Len(res)
      /\ p[2] <= Len(res[p[1]].series)
      /\ p[3] <= Len(res[p[1]].series[p[2]].images) }

SeriesPlaces(res) == { <<p[1], p[2]>> : p \in ImagePlaces(res) }

ImageAt(res, p) == res[p[1]].series[p[2]].images[p[3]]

InUnknownPair(res, p) ==
  /\ res[p[1]].studyInstanceUid = unknownStudyId
  /\ res[p[1]].series[p[2]].seriesInstanceUid = unknownSeriesId

\* C14: a grouped result has at most one study with id "unknown-study" and
\* at most one series with id "unknown-series", and every image whose
\* metadata has no study UID or no series UID is in that series of that
\* study.
UnknownBucketIsSingle ==
  last.op = "groupDicomFiles" =>
    LET res == last.result IN
    /\ Cardinality({i \in 1..Len(res) : res[i].studyInstanceUid = unknownStudyId}) <= 1
    /\ Cardinality({q \in SeriesPlaces(res) :
                      res[q[1]].series[q[2]].seriesInstanceUid = unknownSeriesId}) <= 1
    /\ \A p \in ImagePlaces(res) :
         LET h == ImageAt(res, p).imageId IN
         (~FetchThrows(h) /\ (StudyUidOf(h) = "" \/ SeriesUidOf(h) = ""))
           => InUnknownPair(res, p)

\* C15: in the result of groupDicomFiles for any handle list, every
\* occurrence of a handle in the list is the image of exactly one place,
\* the result has no other image, and a handle whose metadata fetch threw
\* is in series "unknown-series" of study "unknown-study".
EveryHandlePlacedOnce ==
  last.op = "groupDicomFiles" =>
    LET res == last.result
        imageIds == last.imageIds
    IN /\ Cardinality(ImagePlaces(res)) = Len(imageIds)
       /\ \A pos \in 1..Len(imageIds) :
            \E p \in ImagePlaces(res) :
              /\ ImageAt(res, p).pos = pos
              /\ ImageAt(res, p).imageId = imageIds[pos]
              /\ \A q \in ImagePlaces(res) : ImageAt(res, q).pos = pos => q = p
              /\ FetchThrows(imageIds[pos]) => InUnknownPair(res, p)

\* C15 witness: a grouped list of three handles in which one handle occurs
\* twice and the fetch threw for another.
GroupedRepeatedAndThrown ==
  /\ last.op = "groupDicomFiles" /\ Len(last.imageIds) = 3
  /\ \E i, j, k \in 1..3 :
       /\ i # j
       /\ last.imageIds[i] = last.imageIds[j]
       /\ ~FetchThrows(last.imageIds[i])
       /\ FetchThrows(last.imageIds[k])

\* The position in imageIds of the image that created a series or a study.
SeriesFirstPos(series) ==
  CHOOSE n \in 1..MaxHandles :
    /\ \E k \in 1..Len(series.images) : series.images[k].pos = n
    /\ \A k \in 1..Len(series.images) : series.images[k].pos >= n

StudyFirstPos(study) ==
  CHOOSE n \in 1..MaxHandles :
    /\ \E j \in 1..Len(study.series) : SeriesFirstPos(study.series[j]) = n
    /\ \A j \in 1..Len(study.series) : SeriesFirstPos(study.series[j]) >= n

\* C16 as stated: of two dated studies of a result the first is before the
\* second if and only if its studyDate is greater or equal; undated
\* studies are after all dated ones, in insertion order.
DatedBeforeIffNotOlder ==
  last.op = "groupDicomFiles" =>
    LET res == last.result IN
    \A i, j \in 1..Len(res) :
      /\ (i # j /\ res[i].studyDate # NoDate /\ res[j].studyDate # NoDate) =>
           (i < j <=> res[i].studyDate >= res[j].studyDate)
      /\ (res[i].studyDate # NoDate /\ res[j].studyDate = NoDate) => i < j
      /\ (i < j /\ res[i].studyDate = NoDate /\ res[j].studyDate = NoDate) =>
           StudyFirstPos(res[i]) < StudyFirstPos(res[j])

\* C16 amended: of two dated studies of a result the one with the greater
\* studyDate is first and two with equal studyDate are in insertion
\* order; undated studies are after all dated ones, in insertion order.
StudiesNewestFirst ==
  last.op = "groupDicomFiles" =>
    LET res == last.result IN
    \A i, j \in 1..Len(res) :
      /\ (res[i].studyDate # NoDate /\ res[j].studyDate # NoDate
            /\ res[i].studyDate > res[j].studyDate) => i < j
      /\ (i < j /\ res[i].studyDate = res[j].studyDate) =>
           StudyFirstPos(res[i]) < StudyFirstPos(res[j])
      /\ (res[i].studyDate # NoDate /\ res[j].studyDate = NoDate) => i < j

\* C16 witness: a result of three studies, the first two with one
\* studyDate, the third undated and created before the other two.
GroupedEqualDatesAndUndated ==
  /\ last.op = "groupDicomFiles" /\ Len(last.result) = 3
  /\ last.result[1].studyDate # NoDate
  /\ last.result[1].studyDate = last.result[2].studyDate
  /\ last.result[3].studyDate = NoDate
  /\ StudyFirstPos(last.result[3]) < StudyFirstPos(last.result[1])

\* a is not after b by number: defined numbers ascending, undefined last.
NumberNotAfter(a, b) ==
  /\ (a # NoNumber /\ b # NoNumber) => a <= b
  /\ a = NoNumber => b = NoNumber

\* C17: in every study of a result the series are in non-decreasing
\* seriesNumber order, those without a seriesNumber last, and in every
\* series the images are in non-decreasing instanceNumber order, those
\* without an instanceNumber last; series or images with equal or both
\* undefined numbers are in insertion order.
SeriesAndImagesInOrder ==
  last.op = "groupDicomFiles" =>
    LET res == last.result IN
    \A i \in 1..Len(res) :
      /\ \A j, k \in 1..Len(res[i].series) :
           LET a == res[i].series[j]
               b == res[i].series[k]
           IN j < k =>
                /\ NumberNotAfter(a.seriesNumber, b.seriesNumber)
                /\ a.seriesNumber = b.seriesNumber =>
                     SeriesFirstPos(a) < SeriesFirstPos(b)
      /\ \A j \in 1..Len(res[i].series) :
           LET imgs == res[i].series[j].images IN
           \A k, l \in 1..Len(imgs) :
             k < l =>
               /\ NumberNotAfter(imgs[k].instanceNumber, imgs[l].instanceNumber)
               /\ imgs[k].instanceNumber = imgs[l].instanceNumber =>
                    imgs[k].pos < imgs[l].pos

\* C17 witness: a series of three images whose last image has no
\* instanceNumber and came first in the input, and whose first image came
\* last in the input.
GroupedImagesReordered ==
  /\ last.op = "groupDicomFiles"
  /\ \E q \in SeriesPlaces(last.result) :
       LET imgs == last.result[q[1]].series[q[2]].images IN
       /\ Len(imgs) = 3
       /\ imgs[3].instanceNumber = NoNumber /\ imgs[3].pos = 1
       /\ imgs[1].pos = 3

\* s is shorter / longer * maxSize rounded to the nearest integer, a half
\* rounded up.
IsRounded(s, shorter, longer, maxSize) ==
  /\ 2 * (s * longer - shorter * maxSize) <= longer
  /\ 2 * (shorter * maxSize - s * longer) < longer

\* C20: the thumbnail canvas of generateThumbnail for a canvas of positive
\* width and height has maxSize as the side along the longer side of the
\* canvas and round(shorter / longer * maxSize) as the other; a square
\* canvas gives maxSize by maxSize, 200 x 100 at 128 gives 128 x 64 and
\* 100 x 200 at 128 gives 64 x 128.
ThumbnailKeepsAspect ==
  last.op = "generateThumbnail" =>
    /\ last.width > last.height =>
         /\ last.thumbWidth = last.maxSize
         /\ IsRounded(last.thumbHeight, last.height, last.width, last.maxSize)
    /\ last.width < last.height =>
         /\ last.thumbHeight = last.maxSize
         /\ IsRounded(last.thumbWidth, last.width, last.height, last.maxSize)
    /\ last.width = last.height =>
         (last.thumbWidth = last.maxSize /\ last.thumbHeight = last.maxSize)
    /\ (last.width = 200 /\ last.height = 100 /\ last.maxSize = 128) =>
         (last.thumbWidth = 128 /\ last.thumbHeight = 64)
    /\ (last.width = 100 /\ last.height = 200 /\ last.maxSize = 128) =>
         (last.thumbWidth = 64 /\ last.thumbHeight = 128)

\* C20 witness: a thumbnail was drawn of a 200 x 100 canvas at maxSize 128.
ThumbnailOfWideCanvas ==
  /\ last.op = "generateThumbnail" /\ last.result # ""
  /\ last.width = 200 /\ last.height = 100 /\ last.maxSize = 128

\* C26: whenever no call is in progress, every StoredImage row's studyId
\* is the id of a StoredStudy row.
NoOrphanImages ==
  call = NoCall => \A img \in images : HasStudy(studies, img.studyId)

\* C26 witness: a delete that removed a study with its image rows has
\* completed while image rows of another study are stored.
DeletedOneOfTwoStudies ==
  /\ last.op = "delete" /\ last.result = "ok" /\ ~last.fault /\ ~last.noRow
  /\ images # {}

UpdateFaults == {"updateGet", "updatePut", "updateCommit"}

\* C24: a loadStudy(id) of a stored study during which the read, the put or
\* the commit of the lastViewedAt update failed returns the study with one
\* handle per stored image row of the study, and leaves the study store as
\* it was.
LoadSurvivesFailedUpdate ==
  [][ (call = NoCall /\ last'.op = "load" /\ last'.failedAt \in UpdateFaults
         /\ HasStudy(studies, last'.id)) =>
        /\ last'.result = "ok"
        /\ Len(last'.handles) = Cardinality(ImagesOfStudy(images, last'.id))
        /\ \A img \in ImagesOfStudy(images, last'.id) :
             Occurrences(last'.handles, img.dicomBytes) >= 1
        /\ studies' = studies ]_vars

\* C24 witness: a load whose lastViewedAt put failed returned two handles.
LoadedDespiteFailedUpdate ==
  /\ last.op = "load" /\ last.failedAt = "updatePut" /\ last.result = "ok"
  /\ Len(last.handles) = 2

\* C23: after a save that met no storage error and whose file list has a
\* file whose metadata extraction throws, every file of the list has an
\* image row of the study with its bytes; the row of a throwing file at
\* position i has imageId "{studyUid}-{i}", instanceNumber i and seriesId
\* "unknown-series"; the row of any other file has the file's own SOP
\* instance UID, series UID and instance number; and the study row's
\* imageCount is the number of files.
ThrowingFilesStoredByPosition ==
  (last.op = "save" /\ last.result = "ok" /\ ~last.fault
     /\ \E i \in 1..Len(last.files) : ExtractionThrows(last.files[i])) =>
    /\ last.study.imageCount = Len(last.files)
    /\ \A i \in 1..Len(last.files) :
         LET b == last.files[i] IN
         \E img \in ImagesOfStudy(images, last.id) :
           /\ img.dicomBytes = b
           /\ IF ExtractionThrows(b)
              THEN /\ img.imageId = PositionalImageId(last.id, i - 1)
                   /\ img.instanceNumber = i - 1
                   /\ img.seriesId = UnknownSeries
              ELSE /\ img.imageId = SopImageId(SopOf(b))
                   /\ img.instanceNumber = InstanceOf(b)
                   /\ img.seriesId = SeriesOf(b)

\* C27: no step of a save under one study id changes the study row or the
\* image rows of another study.
SaveLeavesOtherStudiesAlone ==
  [][ (call.op = "save" \/ last'.op = "save") =>
        LET A == IF call.op = "save" THEN call.id ELSE last'.id IN
        \A B \in StudyIds \ {A} :
          /\ ImagesOfStudy(images', B) = ImagesOfStudy(images, B)
          /\ {r \in studies' : r.id = B} = {r \in studies : r.id = B} ]_vars

\* Place p comes before place q in study, series, image order.
PlaceBefore(p, q) ==
  \/ p[1] < q[1]
  \/ (p[1] = q[1] /\ p[2] < q[2])
  \/ (p[1] = q[1] /\ p[2] = q[2] /\ p[3] < q[3])

\* The number of images before place p, which is its index counted from 0.
IndexOfPlace(res, p) == Cardinality({q \in ImagePlaces(res) : PlaceBefore(q, p)})

\* C25: after a file load the flattened handle sequence has one entry per
\* image of the grouped studies, the image of every place at the index that
\* study, series and image order gives it; and the series boundaries are
\* strictly increasing, each greater than 0 and smaller than the length of
\* the sequence, they are exactly the indexes greater than 0 at which a
\* series starts, and there is one fewer of them than there are series.
FlattenedInOrderWithBoundaries ==
  (viewer.producedFrom # <<>>) =>
    LET res == viewer.studies
        flat == viewer.currentImageIds
        bounds == seriesBoundaries(res)
    IN /\ Len(flat) = Cardinality(ImagePlaces(res))
       /\ \A p \in ImagePlaces(res) :
            flat[IndexOfPlace(res, p) + 1] = ImageAt(res, p).imageId
       /\ \A i \in 1..Len(bounds) : bounds[i] > 0 /\ bounds[i] < Len(flat)
       /\ \A i \in 1..(Len(bounds) - 1) : bounds[i] < bounds[i + 1]
       /\ {bounds[i] : i \in 1..Len(bounds)} =
            {IndexOfPlace(res, <<sp[1], sp[2], 1>>) : sp \in SeriesPlaces(res)} \ {0}
       /\ Len(bounds) = Cardinality(SeriesPlaces(res)) - 1

\* C25 witness: a file load gave two studies, one of them with two series.
FlattenedThreeSeries ==
  /\ viewer.producedFrom # <<>>
  /\ Len(viewer.studies) = 2
  /\ Cardinality(SeriesPlaces(viewer.studies)) = 3
  /\ seriesBoundaries(viewer.studies) = <<1, 2>>

\* C28: whenever there are images, the index of the displayed image is one
\* of their indexes, and every series range and series boundary that
\* navigation can jump to lies within the image list.
IndexWithinImages ==
  (Len(viewer.currentImageIds) > 0) =>
    /\ viewer.currentImageIndex >= 0
    /\ viewer.currentImageIndex < Len(viewer.currentImageIds)
    /\ \A i \in 1..Len(viewer.seriesRanges) :
         viewer.seriesRanges[i].start < Len(viewer.currentImageIds)
    /\ \A i \in 1..Len(seriesBoundaries(viewer.studies)) :
         seriesBoundaries(viewer.studies)[i] < Len(viewer.currentImageIds)

\* C29: whenever saving to the library is enabled, the loaded files are the
\* File objects from which the displayed image ids were produced, so that a
\* save after a library load cannot store the files of an earlier file load
\* under the id of the library study.
SaveStoresDisplayedFiles ==
  SaveEnabled =>
    {viewer.loadedFiles[i] : i \in 1..Len(viewer.loadedFiles)} =
      {viewer.producedFrom[i] : i \in 1..Len(viewer.producedFrom)}

\* C21: in one page at most one open request is issued, and the callers
\* that hold a connection (preferences, recent files, study library,
\* thumbnail cache) all hold the same one.
OneOpenOneConnection ==
  idb.started =>
    /\ idb.opens <= 1
    /\ \A c, d \in Callers :
         (idb.got[c] \in Modules /\ idb.got[d] \in Modules) => idb.got[c] = idb.got[d]

AllStores == {"preferences", "recentFiles", "studies", "images", "thumbnails"}

AllIndexes ==
  { <<"recentFiles", "timestamp">>, <<"studies", "importedAt">>,
    <<"studies", "lastViewedAt">>, <<"images", "studyId">>,
    <<"images", "seriesId">>, <<"thumbnails", "studyId">> }

\* C22: a database at version 2 has the five stores and the six indexes,
\* whatever database the open at version 2 found: none, one that the
\* preferences module made at version 1, or one that the thumbnail cache
\* made at version 1.
VersionTwoHasFullSchema ==
  (idb.started /\ idb.db.version = 2) =>
    /\ idb.db.stores = AllStores
    /\ AllIndexes \subseteq idb.db.indexes

\* C30: when two overlapping setPreference calls that write different keys
\* have both completed and no request of theirs reported an error, the
\* preferences that getPreferences reads hold both new values.
OverlappingWritesBothKept ==
  \A w, x \in DOMAIN writers :
    ( /\ w # x
      /\ writers[w].pc = "done" /\ writers[x].pc = "done"
      /\ ~writers[w].fault /\ ~writers[x].fault
      /\ DOMAIN writers[w].partial # DOMAIN writers[x].partial ) =>
      \A k \in DOMAIN writers[w].partial :
        PreferencesOf(prefs)[k] = writers[w].partial[k]

====
